---------------------------- MODULE Spec2Model ----------------------------
(***************************************************************************)
(* ordiff: the incremental indexing engine of the MCP server               *)
(* (cmd/mcp/server.go), the GitHub fetcher (internal/github) and the       *)
(* SQLite cache (internal/cache/db.go).                                    *)
(*                                                                         *)
(* Messages, errors and commit ids are tuples: the empty string is <<>>.   *)
(***************************************************************************)
EXTENDS Integers, Sequences, FiniteSets, TLC

\* ------------------------------------------------------------------ bounds
MaxRuns == 2        \* indexing runs started in one behaviour, both variants
MaxReleases == 3    \* releases the remote repository holds
MaxCommits == 1     \* commits the remote reports for one compare
MaxFiles == 2       \* changed files the remote reports for one diff
MaxFaults == 1      \* remote / store failures in one behaviour
MaxNoSha == 1       \* releases whose target commit is empty
SmallPage == 1      \* releases per page when the listing is paginated
MaxParts == 4       \* fragments a commit message is made of
MaxKills == 1       \* times the server process is stopped during a run
MaxTotalPairs == 8  \* release pairs the progress estimate is evaluated for

\* ------------------------------------------------------- program constants
PerPage == 100      \* github.ListOptions{PerPage: 100}
StatusTotal == 100  \* the "total" every progress write passes

Handlers == {"h1", "h2"}
Repos == {<<"ollama", "ollama">>, <<"fork", "ollama">>}
ThePageSizes == {SmallPage, PerPage}

VARIABLES
    status,     \* indexState.status
    mu,         \* indexState.mu: [writer, readers]
    db,         \* the SQLite cache: [releases, commits, file_changes]
    config,     \* the persisted default repository (.ordiff.yaml)
    remote,     \* the remote source: [list, repos, commits, files, message]
    runs,       \* the runIndexingAsync goroutines spawned so far
    hs,         \* the request handlers' positions
    accepted,   \* number of accepted index_repo requests
    faults,     \* remote and store failures so far
    cli         \* the `ordiff index` process: IndexCmd and Fetcher.IndexAll

vars == <<status, mu, db, config, remote, runs, hs, accepted, faults, cli>>

\* ------------------------------------------------------------------- time
\* time.Time with a sub-second part; RFC3339 keeps whole seconds only.
FormatRFC3339(t) == t.s

Min(a, b) == IF a < b THEN a ELSE b

\* ------------------------------------------------------- extractPrNumber
\* A message is a tuple of one-character strings; a nil *int is <<>> and a
\* pointer to n is <<n>>.
Digits == {"0", "1", "2", "3", "4", "5", "6", "7", "8", "9"}

DigitVal(c) ==
    CASE c = "0" -> 0 [] c = "1" -> 1 [] c = "2" -> 2 [] c = "3" -> 3 [] c = "4" -> 4
      [] c = "5" -> 5 [] c = "6" -> 6 [] c = "7" -> 7 [] c = "8" -> 8 [] c = "9" -> 9

\* prefixes := []string{"#", "PR #", "pull/"}
Prefixes == << <<"#">>, <<"P", "R", " ", "#">>, <<"p", "u", "l", "l", "/">> >>

\* strings.Index(msg, prefix): where the first occurrence starts, -1 if none
Index(msg, prefix) ==
    LET hits == {k \in 0..(Len(msg) - Len(prefix)) :
                    SubSeq(msg, k + 1, k + Len(prefix)) = prefix}
    IN IF hits = {} THEN -1 ELSE CHOOSE k \in hits : \A j \in hits : k <= j

\* for _, c := range rest: a digit is appended to numStr, any other
\* character ends the scan once numStr is not empty and is passed over before
RECURSIVE ScanDigits(_, _)
ScanDigits(rest, numStr) ==
    IF rest = <<>> THEN numStr
    ELSE IF Head(rest) \in Digits THEN ScanDigits(Tail(rest), Append(numStr, Head(rest)))
    ELSE IF Len(numStr) > 0 THEN numStr
    ELSE ScanDigits(Tail(rest), numStr)

\* fmt.Sscanf(numStr, "%d", &n) on a string of digits
RECURSIVE Sscanf(_)
Sscanf(numStr) ==
    IF numStr = <<>> THEN 0
    ELSE Sscanf(SubSeq(numStr, 1, Len(numStr) - 1)) * 10 + DigitVal(numStr[Len(numStr)])

\* the loop over the prefixes, from the k-th on
RECURSIVE TryPrefixes(_, _)
TryPrefixes(msg, k) ==
    IF k > Len(Prefixes) THEN <<>>
    ELSE LET idx == Index(msg, Prefixes[k])
             numStr == IF idx = -1 THEN <<>>
                       ELSE ScanDigits(SubSeq(msg, idx + Len(Prefixes[k]) + 1, Len(msg)), <<>>)
         IN IF Len(numStr) > 0 THEN <<Sscanf(numStr)>> ELSE TryPrefixes(msg, k + 1)

extractPrNumber(msg) == TryPrefixes(msg, 1)

\* --------------------------------------------------------------- cache/db
EmptyDB == [releases |-> {}, commits |-> {}, file_changes |-> <<>>]

\* (mutant) the save replaces every release of the repository
SaveReleaseReplacingAll(d, r) ==
    [d EXCEPT !.releases =
        {x \in @ : x.owner # r.Owner \/ x.repo # r.Repo} \cup
        {[tag_name |-> r.TagName, name |-> r.Name,
          published_at |-> FormatRFC3339(r.PublishedAt),
          commit_sha |-> r.CommitSHA, body |-> r.Body,
          owner |-> r.Owner, repo |-> r.Repo]}]

\* INSERT OR REPLACE INTO releases: the primary key is tag_name alone.
SaveRelease(d, r) ==
    [d EXCEPT !.releases =
        {x \in @ : x.tag_name # r.TagName} \cup
        {[tag_name |-> r.TagName, name |-> r.Name,
          published_at |-> FormatRFC3339(r.PublishedAt),
          commit_sha |-> r.CommitSHA, body |-> r.Body,
          owner |-> r.Owner, repo |-> r.Repo]}]

\* INSERT OR REPLACE INTO commits: the primary key is sha alone.
SaveCommit(d, c) ==
    [d EXCEPT !.commits =
        {x \in @ : x.sha # c.SHA} \cup
        {[sha |-> c.SHA, message |-> c.Message, author |-> c.Author,
          date |-> FormatRFC3339(c.Date), owner |-> c.Owner,
          repo |-> c.Repo, pr_number |-> c.PrNumber]}]

\* INSERT INTO file_changes: a new row with the next autoincrement id.
SaveFileChange(d, fc) ==
    [d EXCEPT !.file_changes =
        Append(@, [filename |-> fc.Filename, status |-> fc.Status,
                   owner |-> fc.Owner, repo |-> fc.Repo,
                   from_release |-> fc.FromRelease,
                   to_release |-> fc.ToRelease])]

\* (mutant) the rows are counted for the repository, whatever the pair
HasFileChangesCachedAnyPair(d, owner, repo, fromRelease, toRelease) ==
    Cardinality({n \in DOMAIN d.file_changes :
        /\ d.file_changes[n].owner = owner
        /\ d.file_changes[n].repo = repo}) > 0

\* SELECT COUNT(*) ... WHERE owner, repo, from_release, to_release; count > 0
HasFileChangesCached(d, owner, repo, fromRelease, toRelease) ==
    Cardinality({n \in DOMAIN d.file_changes :
        /\ d.file_changes[n].owner = owner
        /\ d.file_changes[n].repo = repo
        /\ d.file_changes[n].from_release = fromRelease
        /\ d.file_changes[n].to_release = toRelease}) > 0

\* time.Parse(time.RFC3339, text): the instant the stored text names
ParseRFC3339(text) == [s |-> text, ns |-> 0]

\* ORDER BY published_at DESC (rows with equal keys in the order the engine
\* happens to choose)
RECURSIVE OrderByPublishedDesc(_)
OrderByPublishedDesc(rows) ==
    IF rows = {} THEN <<>>
    ELSE LET top == CHOOSE x \in rows : \A y \in rows : y.published_at <= x.published_at
         IN <<top>> \o OrderByPublishedDesc(rows \ {top})

\* ORDER BY c.date ASC
RECURSIVE OrderByDateAsc(_)
OrderByDateAsc(rows) ==
    IF rows = {} THEN <<>>
    ELSE LET low == CHOOSE x \in rows : \A y \in rows : x.date <= y.date
         IN <<low>> \o OrderByDateAsc(rows \ {low})

\* rows.Scan into a cache.Release; Owner and Repo are the arguments
ScanRelease(x, owner, repo) ==
    [TagName |-> x.tag_name, Name |-> x.name,
     PublishedAt |-> ParseRFC3339(x.published_at), CommitSHA |-> x.commit_sha,
     Body |-> x.body, Owner |-> owner, Repo |-> repo]

\* SELECT ... FROM releases WHERE owner = ? AND repo = ? ORDER BY published_at DESC
GetReleases(d, owner, repo) ==
    LET rows == {x \in d.releases : x.owner = owner /\ x.repo = repo}
        sorted == OrderByPublishedDesc(rows)
    IN [j \in DOMAIN sorted |-> ScanRelease(sorted[j], owner, repo)]

\* SELECT ... WHERE owner = ? AND repo = ? AND tag_name = ?; no row is an
\* error (<<>>)
GetRelease(d, owner, repo, tag) ==
    LET rows == {x \in d.releases : x.owner = owner /\ x.repo = repo /\ x.tag_name = tag}
    IN IF rows = {} THEN <<>> ELSE ScanRelease(CHOOSE x \in rows : TRUE, owner, repo)

\* SELECT ... FROM commits c JOIN releases r1 ON c.date >= r1.published_at
\* JOIN releases r2 ON c.date <= r2.published_at WHERE c.owner = ? AND
\* c.repo = ? AND r1.tag_name = ? AND r2.tag_name = ? ORDER BY c.date ASC
GetCommitsBetween(d, owner, repo, fromTag, toTag) ==
    LET rows == {c \in d.commits :
                    /\ c.owner = owner /\ c.repo = repo
                    /\ \E r1, r2 \in d.releases :
                          /\ r1.tag_name = fromTag /\ r2.tag_name = toTag
                          /\ c.date >= r1.published_at /\ c.date <= r2.published_at}
        sorted == OrderByDateAsc(rows)
    IN [j \in DOMAIN sorted |->
           [SHA |-> sorted[j].sha, Message |-> sorted[j].message,
            Author |-> sorted[j].author, Date |-> ParseRFC3339(sorted[j].date),
            Owner |-> owner, Repo |-> repo, PrNumber |-> sorted[j].pr_number]]

\* ---------------------------------------------------------- remote source
\* The releases of the remote repository in the order the API lists them.
\* A release is tagged t, published at second t, and targets commit <<t>>
\* unless its target_commitish is empty. A compare of two commits answers
\* the same every time: remote.commits commits with message remote.message
\* and remote.files changed files.
Perms(n) == {f \in [1..n -> 1..n] : \A a, b \in 1..n : f[a] = f[b] => a = b}

RemoteLists ==
    UNION {{[j \in 1..n |-> [tag |-> f[j], sha |-> IF f[j] \in e THEN <<>> ELSE <<f[j]>>]] :
                f \in Perms(n), e \in {x \in SUBSET (1..n) : Cardinality(x) <= MaxNoSha}} :
           n \in 0..MaxReleases}

\* The items of one page and resp.NextPage (0 on the last page).
PageItems(list, perPage, page) ==
    SubSeq(list, (page - 1) * perPage + 1, Min(page * perPage, Len(list)))

NextPage(list, perPage, page) == IF page * perPage < Len(list) THEN page + 1 ELSE 0

\* The cache.Release built from one listed release (part_001 lines 299-315).
ToRelease(e, owner, repo) ==
    [TagName |-> e.tag, Name |-> <<>>, PublishedAt |-> [s |-> e.tag, ns |-> 0],
     CommitSHA |-> e.sha, Body |-> <<>>, Owner |-> owner, Repo |-> repo]

\* The cache.Commit list built from a compare response of n commits with
\* message msg. They are authored when the newer release is published.
ToCommits(n, fromSHA, toSHA, date, msg, owner, repo) ==
    [c \in 1..n |-> [SHA |-> fromSHA \o toSHA \o <<c>>, Message |-> msg,
                     Author |-> <<>>, Date |-> date,
                     Owner |-> owner, Repo |-> repo,
                     PrNumber |-> extractPrNumber(msg)]]

\* The cache.FileChange list built from a diff response of n files; the
\* release tags are still unset (the zero value, modelled as 0).
ToFileChanges(n, owner, repo) ==
    [c \in 1..n |-> [Filename |-> c, Status |-> "modified", Owner |-> owner,
                     Repo |-> repo, FromRelease |-> 0, ToRelease |-> 0]]

\* ------------------------------------------------------------- run status
ZeroStatus ==
    [Owner |-> "", Repo |-> "", IsRunning |-> FALSE, Progress |-> 0,
     Total |-> 0, Message |-> <<>>, Error |-> <<>>]

\* The field assignments each status writer makes while it holds the lock.
updateIndexProgress(progress, total, message) ==
    << <<"Progress", progress>>, <<"Total", total>>, <<"Message", message>> >>

\* (mutant) the error is stored but the run stays marked as running
setIndexErrorStillRunning(err) == << <<"Error", err>> >>

setIndexError(err) == << <<"IsRunning", FALSE>>, <<"Error", err>> >>

\* (mutant) the summary is stored but the run stays marked as running
finishIndexingStillRunning(success, message) ==
    << <<"ProgressFromTotal", 0>>, <<"Message", message>> >>
    \o (IF success THEN <<>> ELSE << <<"Error", message>> >>)

finishIndexing(success, message) ==
    << <<"IsRunning", FALSE>>, <<"ProgressFromTotal", 0>>, <<"Message", message>> >>
    \o (IF success THEN <<>> ELSE << <<"Error", message>> >>)

Assign(s, w) ==
    CASE w[1] = "Progress" -> [s EXCEPT !.Progress = w[2]]
      [] w[1] = "Total" -> [s EXCEPT !.Total = w[2]]
      [] w[1] = "Message" -> [s EXCEPT !.Message = w[2]]
      [] w[1] = "IsRunning" -> [s EXCEPT !.IsRunning = w[2]]
      [] w[1] = "Error" -> [s EXCEPT !.Error = w[2]]
      [] w[1] = "ProgressFromTotal" -> [s EXCEPT !.Progress = s.Total]

MuFree == mu.writer = <<>> /\ mu.readers = {}

\* ----------------------------------------------- runIndexingAsync goroutine
\* trace: what the run did in its pair loop, in order. An event is the probe
\* of pair i (ok: the answer), a compare or diff call (ok: it succeeded) or
\* the save of a commit or a file change (ok: it succeeded), with the tags
\* of the two releases the step worked on.
Ev(ev, run, from, to, ok) ==
    [ev |-> ev, i |-> run.i, from |-> from.TagName, to |-> to.TagName, ok |-> ok]

\* The goroutine as `go runIndexingAsync(owner, repo, fetcher, db)` starts
\* it: about to call updateIndexProgress(0, 100, "Fetching releases...").
NewRun(owner, repo) ==
    [pc |-> "lock", ret |-> "fetchRel",
     pend |-> updateIndexProgress(0, StatusTotal, <<"Fetching releases...">>),
     owner |-> owner, repo |-> repo, releases |-> <<>>, perPage |-> 0, page |-> 1,
     totalPages |-> 0, saved |-> 0, i |-> 0, totalPairs |-> 0, processed |-> 0,
     skipped |-> 0, commits |-> <<>>, files |-> <<>>, err |-> <<>>, trace |-> <<>>]

\* Calling a status writer: the run goes on at `ret` once it has unlocked.
Call(run, writes, ret) == [run EXCEPT !.pc = "lock", !.pend = writes, !.ret = ret]

RunIds == DOMAIN runs
Active(r) == runs[r].pc \notin {"done", "killed"}

\* indexState.mu.Lock() of updateIndexProgress / setIndexError / finishIndexing
MuLock(r) ==
    /\ runs[r].pc = "lock"
    /\ MuFree
    /\ mu' = [mu EXCEPT !.writer = <<"run", r>>]
    /\ runs' = [runs EXCEPT ![r].pc = "write"]
    /\ UNCHANGED <<status, db, config, remote, hs, accepted, faults, cli>>

\* one assignment to a field of indexState.status, the lock held
StatusAssign(r) ==
    /\ runs[r].pc = "write"
    /\ runs[r].pend # <<>>
    /\ status' = Assign(status, Head(runs[r].pend))
    /\ runs' = [runs EXCEPT ![r].pend = Tail(@)]
    /\ UNCHANGED <<mu, db, config, remote, hs, accepted, faults, cli>>

\* (mutant) the writer returns without Unlock
MuUnlockMissing(r) ==
    /\ runs[r].pc = "write"
    /\ runs[r].pend = <<>>
    /\ mu' = mu
    /\ runs' = [runs EXCEPT ![r].pc = runs[r].ret]
    /\ UNCHANGED <<status, db, config, remote, hs, accepted, faults, cli>>

\* indexState.mu.Unlock(), and the return to the caller
MuUnlock(r) ==
    /\ runs[r].pc = "write"
    /\ runs[r].pend = <<>>
    /\ mu' = [mu EXCEPT !.writer = <<>>]
    /\ runs' = [runs EXCEPT ![r].pc = runs[r].ret]
    /\ UNCHANGED <<status, db, config, remote, hs, accepted, faults, cli>>

\* FetchAllReleasesForIndexing: one ListReleases call of the page loop.
\* The page size is scaled: the listing is served whole (PerPage) or
\* SmallPage releases at a time, which stands for a repository of more
\* than PerPage releases. page, totalPages and the page size are locals of
\* the listing and are reset when it returns.
FetchReleasesPage(r) ==
    LET run == runs[r] IN
    /\ run.pc = "fetchRel"
    /\ \E pp \in IF run.perPage = 0 THEN ThePageSizes ELSE {run.perPage} :
        LET next == NextPage(remote.list, pp, run.page)
            page == PageItems(remote.list, pp, run.page)
            items == [j \in DOMAIN page |-> ToRelease(page[j], run.owner, run.repo)]
            tp == IF run.totalPages = 0 /\ next > run.page THEN next ELSE run.totalPages
        IN
        \/ /\ faults < MaxFaults
           /\ faults' = faults + 1
           /\ runs' = [runs EXCEPT ![r] =
                 Call([run EXCEPT !.perPage = 0, !.page = 1, !.totalPages = 0,
                                  !.releases = <<>>, !.err = <<"err">>],
                      setIndexError(<<"Failed to fetch releases: ", "err">>), "done")]
        \/ /\ next = 0
           /\ runs' = [runs EXCEPT ![r] =
                 Call([run EXCEPT !.releases = @ \o items, !.perPage = 0, !.page = 1,
                                  !.totalPages = 0],
                      updateIndexProgress(20, StatusTotal, <<"Saving releases to cache...">>),
                      "saveRel")]
           /\ UNCHANGED faults
        \/ /\ next # 0
           /\ runs' = [runs EXCEPT ![r] =
                 Call([run EXCEPT !.releases = @ \o items, !.perPage = pp,
                                  !.totalPages = tp, !.page = next],
                      updateIndexProgress((next * 100) \div tp, 100, <<"Fetching releases...">>),
                      "fetchRel")]
           /\ UNCHANGED faults
    /\ UNCHANGED <<status, mu, db, config, remote, hs, accepted, cli>>

\* for i, r := range releases { db.SaveRelease(r); updateIndexProgress(...) }
SaveReleaseStep(r) ==
    LET run == runs[r] IN
    /\ run.pc = "saveRel"
    /\ run.saved < Len(run.releases)
    /\ \/ /\ db' = SaveRelease(db, run.releases[run.saved + 1])
          /\ UNCHANGED faults
       \/ /\ faults < MaxFaults
          /\ faults' = faults + 1
          /\ UNCHANGED db
    /\ runs' = [runs EXCEPT ![r] =
          Call([run EXCEPT !.saved = @ + 1],
               updateIndexProgress(20 + ((run.saved * 10) \div Len(run.releases)),
                                   StatusTotal, <<"Saving releases...">>),
               "saveRel")]
    /\ UNCHANGED <<status, mu, config, remote, hs, accepted, cli>>

\* updateIndexProgress(30, ...); totalPairs := len(releases) - 1; ...
StartPairs(r) ==
    LET run == runs[r] IN
    /\ run.pc = "saveRel"
    /\ run.saved >= Len(run.releases)
    /\ runs' = [runs EXCEPT ![r] =
          Call([run EXCEPT !.totalPairs = Len(run.releases) - 1,
                           !.processed = 0, !.skipped = 0, !.i = 0],
               updateIndexProgress(30, StatusTotal,
                   <<"Fetching commits and files for missing release pairs...">>),
               "pairLoop")]
    /\ UNCHANGED <<status, mu, db, config, remote, hs, accepted, faults, cli>>

\* (mutant) the older release is taken at i instead of i+1
FromSameIndex(run) == run.releases[run.i + 1]

From(run) == run.releases[run.i + 2]
To(run) == run.releases[run.i + 1]

\* (mutant) the estimate without the +1 in its denominator
PairProgressNoSlack(processed, skipped, totalPairs) ==
    30 + ((processed * 70) \div (processed + (totalPairs - skipped - processed)))

\* The progress estimate of the pair loop (server.go lines 288-289).
PairProgress(processed, skipped, totalPairs) ==
    30 + ((processed * 70) \div (processed + (totalPairs - skipped - processed) + 1))

\* (mutant) the answer of the probe is not looked at
AlreadyCachedNever(d, run, probeOk) == FALSE

\* (mutant) the probe passes the two tags in the wrong order
AlreadyCachedSwapped(d, run, probeOk) ==
    probeOk /\ HasFileChangesCached(d, run.owner, run.repo, To(run).TagName, From(run).TagName)

\* The probe of the pair loop: db.HasFileChangesCached, its error dropped
\* (a failed query yields false); then skipped++ / continue, or processed++
\* and the progress write.
AlreadyCached(d, run, probeOk) ==
    probeOk /\ HasFileChangesCached(d, run.owner, run.repo, From(run).TagName, To(run).TagName)

\* (mutant) the pair is counted twice
CountProcessedTwice(run) == run.processed + 2

CountProcessed(run) == run.processed + 1

ProbePair(r) ==
    LET run == runs[r]
        \* what the store answers for the pair at releases[i+1], releases[i]
        Answer(x, probeOk) ==
            probeOk /\ HasFileChangesCached(db, x.owner, x.repo,
                           x.releases[x.i + 2].TagName, x.releases[x.i + 1].TagName)
    IN
    /\ run.pc = "pairLoop"
    /\ run.i < run.totalPairs
    /\ \E probeOk \in BOOLEAN :
          /\ IF probeOk THEN UNCHANGED faults
                        ELSE faults < MaxFaults /\ faults' = faults + 1
          /\ IF AlreadyCached(db, run, probeOk)
             THEN runs' = [runs EXCEPT ![r] =
                     [run EXCEPT !.skipped = @ + 1, !.i = @ + 1,
                                 !.trace = Append(@, Ev("probe", run, From(run), To(run),
                                                        Answer(run, probeOk)))]]
             ELSE runs' = [runs EXCEPT ![r] =
                     Call([run EXCEPT !.processed = CountProcessed(run),
                                      !.trace = Append(@, Ev("probe", run, From(run), To(run),
                                                             Answer(run, probeOk)))],
                          updateIndexProgress(
                              PairProgress(CountProcessed(run), run.skipped, run.totalPairs),
                              StatusTotal,
                              <<"Processing ", From(run).TagName, To(run).TagName,
                                CountProcessed(run), run.skipped>>),
                          "fetchCommits")]
    /\ UNCHANGED <<status, mu, db, config, remote, hs, accepted, cli>>

\* (mutant) && in place of ||
NoCommitPointerBoth(fromSHA, toSHA) == fromSHA = <<>> /\ toSHA = <<>>

\* if fromSHA == "" || toSHA == "" { return empty, nil }
NoCommitPointer(fromSHA, toSHA) == fromSHA = <<>> \/ toSHA = <<>>

\* fetcher.FetchCommitsForIndexing(from.CommitSHA, to.CommitSHA, ...): the
\* page loop of compare calls returns all commits, or the error of the page
\* that failed and no commit; its progress callback is empty.
FetchCommits(r) ==
    LET run == runs[r] IN
    /\ run.pc = "fetchCommits"
    /\ IF NoCommitPointer(From(run).CommitSHA, To(run).CommitSHA)
       THEN /\ runs' = [runs EXCEPT ![r] = [run EXCEPT !.commits = <<>>, !.pc = "saveCommits"]]
            /\ UNCHANGED faults
       ELSE \/ /\ faults < MaxFaults
               /\ faults' = faults + 1
               /\ runs' = [runs EXCEPT ![r] =
                     [run EXCEPT !.i = @ + 1, !.pc = "pairLoop",
                                 !.trace = Append(@, Ev("compare", run, From(run), To(run), FALSE))]]
            \/ /\ runs' = [runs EXCEPT ![r] =
                        [run EXCEPT !.commits = ToCommits(remote.commits, From(run).CommitSHA,
                                                 To(run).CommitSHA, To(run).PublishedAt,
                                                 remote.message, run.owner, run.repo),
                                    !.pc = "saveCommits",
                                    !.trace = Append(@, Ev("compare", run, From(run), To(run), TRUE))]]
               /\ UNCHANGED faults
    /\ UNCHANGED <<status, mu, db, config, remote, hs, accepted, cli>>

\* for _, c := range commits { db.SaveCommit(c) }
SaveCommitStep(r) ==
    LET run == runs[r] IN
    /\ run.pc = "saveCommits"
    /\ run.commits # <<>>
    /\ \E ok \in BOOLEAN :
          /\ IF ok THEN db' = SaveCommit(db, Head(run.commits)) /\ UNCHANGED faults
                   ELSE faults < MaxFaults /\ faults' = faults + 1 /\ UNCHANGED db
          /\ runs' = [runs EXCEPT ![r] =
                [run EXCEPT !.commits = Tail(@),
                            !.trace = Append(@, Ev("saveCommit", run, From(run), To(run), ok))]]
    /\ UNCHANGED <<status, mu, config, remote, hs, accepted, cli>>

\* fetcher.FetchFileChangesForIndexing(from.CommitSHA, to.CommitSHA)
FetchFileChanges(r) ==
    LET run == runs[r] IN
    /\ run.pc = "saveCommits"
    /\ run.commits = <<>>
    /\ IF NoCommitPointer(From(run).CommitSHA, To(run).CommitSHA)
       THEN /\ runs' = [runs EXCEPT ![r] = [run EXCEPT !.files = <<>>, !.pc = "saveFiles"]]
            /\ UNCHANGED faults
       ELSE \/ /\ faults < MaxFaults
               /\ faults' = faults + 1
               /\ runs' = [runs EXCEPT ![r] =
                     [run EXCEPT !.i = @ + 1, !.pc = "pairLoop",
                                 !.trace = Append(@, Ev("diff", run, From(run), To(run), FALSE))]]
            \/ /\ runs' = [runs EXCEPT ![r] =
                        [run EXCEPT !.files = ToFileChanges(remote.files, run.owner, run.repo),
                                    !.pc = "saveFiles",
                                    !.trace = Append(@, Ev("diff", run, From(run), To(run), TRUE))]]
               /\ UNCHANGED faults
    /\ UNCHANGED <<status, mu, db, config, remote, hs, accepted, cli>>

\* (mutant) the two tags are assigned the other way round
StampSwapped(fc, from, to) == [fc EXCEPT !.FromRelease = to.TagName, !.ToRelease = from.TagName]

\* fc.FromRelease = from.TagName; fc.ToRelease = to.TagName
Stamp(fc, from, to) == [fc EXCEPT !.FromRelease = from.TagName, !.ToRelease = to.TagName]

\* for _, fc := range files { stamp; db.SaveFileChange(fc) }
SaveFileChangeStep(r) ==
    LET run == runs[r] IN
    /\ run.pc = "saveFiles"
    /\ run.files # <<>>
    /\ \E ok \in BOOLEAN :
          /\ IF ok THEN /\ db' = SaveFileChange(db, Stamp(Head(run.files), From(run), To(run)))
                        /\ UNCHANGED faults
                   ELSE faults < MaxFaults /\ faults' = faults + 1 /\ UNCHANGED db
          /\ runs' = [runs EXCEPT ![r] =
                [run EXCEPT !.files = Tail(@),
                            !.trace = Append(@, Ev("saveFile", run, From(run), To(run), ok))]]
    /\ UNCHANGED <<status, mu, config, remote, hs, accepted, cli>>

\* the end of one iteration of the pair loop: i++
NextPair(r) ==
    LET run == runs[r] IN
    /\ run.pc = "saveFiles"
    /\ run.files = <<>>
    /\ runs' = [runs EXCEPT ![r] = [run EXCEPT !.i = @ + 1, !.pc = "pairLoop"]]
    /\ UNCHANGED <<status, mu, db, config, remote, hs, accepted, faults, cli>>

\* After the loop: viper.Set(default_owner/default_repo),
\* viper.SafeWriteConfigAs(".ordiff.yaml") (which refuses to overwrite an
\* existing file), then finishIndexing(true, "Indexed ...").
FinishRun(r) ==
    LET run == runs[r] IN
    /\ run.pc = "pairLoop"
    /\ run.i >= run.totalPairs
    /\ config' = [viper |-> <<run.owner, run.repo>>,
                  file |-> IF config.file = <<>> THEN <<run.owner, run.repo>>
                                                 ELSE config.file]
    /\ runs' = [runs EXCEPT ![r] =
          Call(run, finishIndexing(TRUE, <<"Indexed ", run.owner, run.repo,
                                           run.processed, run.skipped>>), "done")]
    /\ UNCHANGED <<status, mu, db, remote, hs, accepted, faults, cli>>

\* ------------------------------------------------------- request handlers
IdleHandler == [pc |-> "idle", owner |-> "", repo |-> "", snap |-> ZeroStatus]

HandlerIds == DOMAIN hs

\* if owner == "" || repo == "" { return "Error: owner and repo are required" }
IndexRepoBadArgs(h) ==
    /\ hs[h].pc = "idle"
    /\ \E a \in {<<"", "ollama">>, <<"ollama", "">>} : a[1] = "" \/ a[2] = ""
    /\ UNCHANGED vars

\* (mutant) the IsRunning test is missing: every request is accepted
AlreadyRunningNever(s) == FALSE

\* if indexState.status.IsRunning
AlreadyRunning(s) == s.IsRunning

\* (mutant) the fields are assigned one by one and Error is left as it was
StartStatusKeepingError(owner, repo) ==
    [status EXCEPT !.Owner = owner, !.Repo = repo, !.IsRunning = TRUE, !.Progress = 0,
                   !.Total = StatusTotal, !.Message = <<"Starting indexing...">>]

\* The status an accepted request writes (server.go lines 98-105).
StartStatus(owner, repo) ==
    [Owner |-> owner, Repo |-> repo, IsRunning |-> TRUE, Progress |-> 0,
     Total |-> StatusTotal, Message |-> <<"Starting indexing...">>, Error |-> <<>>]

\* (mutant) the status is assigned before IsRunning is tested
TryStartAssignFirst(s, owner, repo) ==
    [accepted |-> ~AlreadyRunning(s), status |-> StartStatus(owner, repo)]

\* The critical section of index_repo: whether the request is accepted, and
\* the status it leaves.
TryStart(s, owner, repo) ==
    IF AlreadyRunning(s) THEN [accepted |-> FALSE, status |-> s]
                         ELSE [accepted |-> TRUE, status |-> StartStatus(owner, repo)]

\* index_repo: indexState.mu.Lock()
IndexRepoLock(h) ==
    /\ hs[h].pc = "idle"
    /\ MuFree
    /\ \E a \in remote.repos :
          /\ ~TryStart(status, a[1], a[2]).accepted \/ accepted + cli.n < MaxRuns
          /\ hs' = [hs EXCEPT ![h] = [@ EXCEPT !.pc = "locked", !.owner = a[1], !.repo = a[2]]]
    /\ mu' = [mu EXCEPT !.writer = <<"handler", h>>]
    /\ UNCHANGED <<status, db, config, remote, runs, accepted, faults, cli>>

\* index_repo, a run active: Unlock, then build "Indexing already in progress"
IndexRepoReject(h) ==
    /\ hs[h].pc = "locked"
    /\ ~TryStart(status, hs[h].owner, hs[h].repo).accepted
    /\ status' = TryStart(status, hs[h].owner, hs[h].repo).status
    /\ mu' = [mu EXCEPT !.writer = <<>>]
    /\ hs' = [hs EXCEPT ![h] = [@ EXCEPT !.pc = "rejected"]]
    /\ UNCHANGED <<db, config, remote, runs, accepted, faults, cli>>

\* the rejected request returns its answer
IndexRepoRejected(h) ==
    /\ hs[h].pc = "rejected"
    /\ hs' = [hs EXCEPT ![h] = IdleHandler]
    /\ UNCHANGED <<status, mu, db, config, remote, runs, accepted, faults, cli>>

\* index_repo, no run active: indexState.status = IndexStatus{...}; Unlock
IndexRepoAccept(h) ==
    /\ hs[h].pc = "locked"
    /\ TryStart(status, hs[h].owner, hs[h].repo).accepted
    /\ status' = TryStart(status, hs[h].owner, hs[h].repo).status
    /\ mu' = [mu EXCEPT !.writer = <<>>]
    /\ accepted' = accepted + 1
    /\ hs' = [hs EXCEPT ![h] = [@ EXCEPT !.pc = "spawn"]]
    /\ UNCHANGED <<db, config, remote, runs, faults, cli>>

\* go runIndexingAsync(owner, repo, fetcher, db); return "Started indexing"
IndexRepoSpawn(h) ==
    /\ hs[h].pc = "spawn"
    /\ runs' = Append(runs, NewRun(hs[h].owner, hs[h].repo))
    /\ hs' = [hs EXCEPT ![h] = IdleHandler]
    /\ UNCHANGED <<status, mu, db, config, remote, accepted, faults, cli>>

\* (mutant) the status is read without waiting for the writer
CanRLockAlways(m) == TRUE

\* sync.RWMutex.RLock returns once no writer holds the lock
CanRLock(m) == m.writer = <<>>

\* get_index_status: indexState.mu.RLock(); status := indexState.status
GetStatusRLock(h) ==
    /\ hs[h].pc = "idle"
    /\ CanRLock(mu)
    /\ mu' = [mu EXCEPT !.readers = @ \cup {h}]
    /\ hs' = [hs EXCEPT ![h] = [@ EXCEPT !.pc = "rlocked", !.snap = status]]
    /\ UNCHANGED <<status, db, config, remote, runs, accepted, faults, cli>>

\* get_index_status: the answer is built from the copy; deferred RUnlock
GetStatusRUnlock(h) ==
    /\ hs[h].pc = "rlocked"
    /\ mu' = [mu EXCEPT !.readers = @ \ {h}]
    /\ hs' = [hs EXCEPT ![h] = IdleHandler]
    /\ UNCHANGED <<status, db, config, remote, runs, accepted, faults, cli>>

\* ------------------------------------------- `ordiff index` (IndexCmd)
\* The command-line process: pc "idle" before the first invocation and
\* "exited" after one; err is what IndexAll returned (<<>> is nil).
IdleCli ==
    [pc |-> "idle", n |-> 0, owner |-> "", repo |-> "", releases |-> <<>>,
     perPage |-> 0, page |-> 1, saved |-> 0, i |-> 0, processed |-> 0,
     skipped |-> 0, commits |-> <<>>, files |-> <<>>, err |-> <<>>, trace |-> <<>>]

\* `ordiff index <owner> <repo>`: cache.NewDB("ordiff.db"), NewFetcher, and
\* the call of IndexAll.
IndexCmdRun ==
    /\ cli.pc \in {"idle", "exited"}
    /\ cli.n + accepted < MaxRuns
    /\ \E a \in remote.repos :
          cli' = [IdleCli EXCEPT !.pc = "fetchRel", !.n = cli.n + 1,
                                 !.owner = a[1], !.repo = a[2]]
    /\ UNCHANGED <<status, mu, db, config, remote, runs, hs, accepted, faults>>

\* fetchAllReleases: one ListReleases call of the page loop; an error makes
\* IndexAll return "failed to fetch releases" and IndexCmd exit (log.Fatalf).
IndexAllFetchReleases ==
    /\ cli.pc = "fetchRel"
    /\ \E pp \in IF cli.perPage = 0 THEN ThePageSizes ELSE {cli.perPage} :
        LET next == NextPage(remote.list, pp, cli.page)
            page == PageItems(remote.list, pp, cli.page)
            items == [j \in DOMAIN page |-> ToRelease(page[j], cli.owner, cli.repo)]
        IN
        \/ /\ faults < MaxFaults
           /\ faults' = faults + 1
           /\ cli' = [cli EXCEPT !.perPage = 0, !.page = 1, !.releases = <<>>,
                                 !.err = <<"failed to fetch releases: ", "err">>,
                                 !.pc = "exited"]
        \/ /\ next = 0
           /\ cli' = [cli EXCEPT !.releases = @ \o items, !.perPage = 0, !.page = 1,
                                 !.pc = "saveRel"]
           /\ UNCHANGED faults
        \/ /\ next # 0
           /\ cli' = [cli EXCEPT !.releases = @ \o items, !.perPage = pp, !.page = next]
           /\ UNCHANGED faults
    /\ UNCHANGED <<status, mu, db, config, remote, runs, hs, accepted>>

\* for _, r := range releases { if err := db.SaveRelease(r); err != nil {
\* return fmt.Errorf("failed to save release ...") } }
IndexAllSaveRelease ==
    /\ cli.pc = "saveRel"
    /\ cli.saved < Len(cli.releases)
    /\ \/ /\ db' = SaveRelease(db, cli.releases[cli.saved + 1])
          /\ cli' = [cli EXCEPT !.saved = @ + 1]
          /\ UNCHANGED faults
       \/ /\ faults < MaxFaults
          /\ faults' = faults + 1
          /\ cli' = [cli EXCEPT !.saved = @ + 1, !.pc = "exited",
                                !.err = <<"failed to save release ",
                                          cli.releases[cli.saved + 1].TagName>>]
          /\ UNCHANGED db
    /\ UNCHANGED <<status, mu, config, remote, runs, hs, accepted>>

\* db.GetReleasePairCount (logged only); processed := 0; skipped := 0
IndexAllStartPairs ==
    /\ cli.pc = "saveRel"
    /\ cli.saved >= Len(cli.releases)
    /\ cli' = [cli EXCEPT !.processed = 0, !.skipped = 0, !.i = 0, !.pc = "pairLoop"]
    /\ UNCHANGED <<status, mu, db, config, remote, runs, hs, accepted, faults>>

\* from := releases[i+1]; to := releases[i]
IndexAllFrom(c) == c.releases[c.i + 2]
IndexAllTo(c) == c.releases[c.i + 1]

\* db.HasFileChangesCached: a failed query is logged and yields false; then
\* skipped++ / continue, or processed++.
IndexAllProbe ==
    LET from == IndexAllFrom(cli)
        to == IndexAllTo(cli)
    IN
    /\ cli.pc = "pairLoop"
    /\ cli.i < Len(cli.releases) - 1
    /\ \E probeOk \in BOOLEAN :
          LET alreadyCached ==
                  probeOk /\ HasFileChangesCached(db, cli.owner, cli.repo,
                                                  from.TagName, to.TagName)
          IN
          /\ IF probeOk THEN UNCHANGED faults
                        ELSE faults < MaxFaults /\ faults' = faults + 1
          /\ cli' = IF alreadyCached
                    THEN [cli EXCEPT !.skipped = @ + 1, !.i = @ + 1,
                                     !.trace = Append(@, Ev("probe", cli, from, to, TRUE))]
                    ELSE [cli EXCEPT !.processed = @ + 1, !.pc = "fetchCommits",
                                     !.trace = Append(@, Ev("probe", cli, from, to, FALSE))]
    /\ UNCHANGED <<status, mu, db, config, remote, runs, hs, accepted>>

\* fetchCommits / fetchFileChanges: if fromSHA == "" || toSHA == ""
EmptyCompare(fromSHA, toSHA) == fromSHA = <<>> \/ toSHA = <<>>

\* f.fetchCommits(from.CommitSHA, to.CommitSHA): all pages, or the error
IndexAllFetchCommits ==
    LET from == IndexAllFrom(cli)
        to == IndexAllTo(cli)
    IN
    /\ cli.pc = "fetchCommits"
    /\ IF EmptyCompare(from.CommitSHA, to.CommitSHA)
       THEN /\ cli' = [cli EXCEPT !.commits = <<>>, !.pc = "saveCommits"]
            /\ UNCHANGED faults
       ELSE \/ /\ faults < MaxFaults
               /\ faults' = faults + 1
               /\ cli' = [cli EXCEPT !.i = @ + 1, !.pc = "pairLoop",
                                     !.trace = Append(@, Ev("compare", cli, from, to, FALSE))]
            \/ /\ cli' = [cli EXCEPT
                             !.commits = ToCommits(remote.commits, from.CommitSHA,
                                             to.CommitSHA, to.PublishedAt,
                                             remote.message, cli.owner, cli.repo),
                             !.pc = "saveCommits",
                             !.trace = Append(@, Ev("compare", cli, from, to, TRUE))]
               /\ UNCHANGED faults
    /\ UNCHANGED <<status, mu, db, config, remote, runs, hs, accepted>>

\* for _, c := range commits { db.SaveCommit(c) }
IndexAllSaveCommit ==
    /\ cli.pc = "saveCommits"
    /\ cli.commits # <<>>
    /\ \E ok \in BOOLEAN :
          /\ IF ok THEN db' = SaveCommit(db, Head(cli.commits)) /\ UNCHANGED faults
                   ELSE faults < MaxFaults /\ faults' = faults + 1 /\ UNCHANGED db
          /\ cli' = [cli EXCEPT !.commits = Tail(@),
                        !.trace = Append(@, Ev("saveCommit", cli, IndexAllFrom(cli),
                                               IndexAllTo(cli), ok))]
    /\ UNCHANGED <<status, mu, config, remote, runs, hs, accepted>>

\* f.fetchFileChanges(from.CommitSHA, to.CommitSHA)
IndexAllFetchFileChanges ==
    LET from == IndexAllFrom(cli)
        to == IndexAllTo(cli)
    IN
    /\ cli.pc = "saveCommits"
    /\ cli.commits = <<>>
    /\ IF EmptyCompare(from.CommitSHA, to.CommitSHA)
       THEN /\ cli' = [cli EXCEPT !.files = <<>>, !.pc = "saveFiles"]
            /\ UNCHANGED faults
       ELSE \/ /\ faults < MaxFaults
               /\ faults' = faults + 1
               /\ cli' = [cli EXCEPT !.i = @ + 1, !.pc = "pairLoop",
                                     !.trace = Append(@, Ev("diff", cli, from, to, FALSE))]
            \/ /\ cli' = [cli EXCEPT
                             !.files = ToFileChanges(remote.files, cli.owner, cli.repo),
                             !.pc = "saveFiles",
                             !.trace = Append(@, Ev("diff", cli, from, to, TRUE))]
               /\ UNCHANGED faults
    /\ UNCHANGED <<status, mu, db, config, remote, runs, hs, accepted>>

\* for _, fc := range files { fc.FromRelease = from.TagName;
\* fc.ToRelease = to.TagName; db.SaveFileChange(fc) }
IndexAllSaveFileChange ==
    LET from == IndexAllFrom(cli)
        to == IndexAllTo(cli)
    IN
    /\ cli.pc = "saveFiles"
    /\ cli.files # <<>>
    /\ \E ok \in BOOLEAN :
          /\ IF ok THEN /\ db' = SaveFileChange(db,
                                    [Head(cli.files) EXCEPT !.FromRelease = from.TagName,
                                                            !.ToRelease = to.TagName])
                        /\ UNCHANGED faults
                   ELSE faults < MaxFaults /\ faults' = faults + 1 /\ UNCHANGED db
          /\ cli' = [cli EXCEPT !.files = Tail(@),
                        !.trace = Append(@, Ev("saveFile", cli, from, to, ok))]
    /\ UNCHANGED <<status, mu, config, remote, runs, hs, accepted>>

\* the end of one iteration of the pair loop: i++
IndexAllNextPair ==
    /\ cli.pc = "saveFiles"
    /\ cli.files = <<>>
    /\ cli' = [cli EXCEPT !.i = @ + 1, !.pc = "pairLoop"]
    /\ UNCHANGED <<status, mu, db, config, remote, runs, hs, accepted, faults>>

\* IndexAll returns nil; IndexCmd sets the default repository in its own
\* viper and, no config file being registered, WriteConfig answers
\* ConfigFileNotFoundError and SafeWriteConfigAs(".ordiff.yaml") writes the
\* file unless it exists; the process exits.
IndexCmdFinish ==
    /\ cli.pc = "pairLoop"
    /\ cli.i >= Len(cli.releases) - 1
    /\ config' = [config EXCEPT !.file = IF @ = <<>> THEN <<cli.owner, cli.repo>> ELSE @]
    /\ cli' = [cli EXCEPT !.pc = "exited"]
    /\ UNCHANGED <<status, mu, db, remote, runs, hs, accepted, faults>>

\* ---------------------------------------------------------- specification
\* The server right after RunServer registered its tools: no run yet, an
\* empty cache, no .ordiff.yaml; `lists` are the release listings the remote
\* may hold, `handlers` the request goroutines, `repos` the repositories the
\* clients ask for, `messages` the commit messages the remote may report.
InitOf(remotes, handlers) ==
    /\ status = ZeroStatus
    /\ mu = [writer |-> <<>>, readers |-> {}]
    /\ db = EmptyDB
    /\ config = [viper |-> <<>>, file |-> <<>>]
    /\ remote \in remotes
    /\ runs = <<>>
    /\ hs = [h \in handlers |-> IdleHandler]
    /\ accepted = 0
    /\ faults = 0
    /\ cli = IdleCli

\* Any number of commits and changed files per compare, within the bounds.
InitWith(lists, handlers, repos, messages) ==
    InitOf([list : lists, repos : {repos}, commits : 0..MaxCommits,
            files : 0..MaxFiles, message : messages], handlers)

\* Two concurrent clients, two repositories, listings of one pair at most.
Init == InitWith({l \in RemoteLists : Len(l) < MaxReleases}, Handlers, Repos, {<<>>})

\* One client, one repository, listings of one pair at most.
InitOnePair ==
    InitWith({l \in RemoteLists : Len(l) < MaxReleases}, {"h1"}, {<<"ollama", "ollama">>}, {<<>>})

\* One client, one repository, listings of up to MaxReleases releases.
InitPairs == InitWith(RemoteLists, {"h1"}, {<<"ollama", "ollama">>}, {<<>>})

Next ==
    \/ \E r \in RunIds : MuLock(r)
    \/ \E r \in RunIds : StatusAssign(r)
    \/ \E r \in RunIds : MuUnlock(r)
    \/ \E r \in RunIds : FetchReleasesPage(r)
    \/ \E r \in RunIds : SaveReleaseStep(r)
    \/ \E r \in RunIds : StartPairs(r)
    \/ \E r \in RunIds : ProbePair(r)
    \/ \E r \in RunIds : FetchCommits(r)
    \/ \E r \in RunIds : SaveCommitStep(r)
    \/ \E r \in RunIds : FetchFileChanges(r)
    \/ \E r \in RunIds : SaveFileChangeStep(r)
    \/ \E r \in RunIds : NextPair(r)
    \/ \E r \in RunIds : FinishRun(r)
    \/ \E h \in HandlerIds : IndexRepoBadArgs(h)
    \/ \E h \in HandlerIds : IndexRepoLock(h)
    \/ \E h \in HandlerIds : IndexRepoReject(h)
    \/ \E h \in HandlerIds : IndexRepoRejected(h)
    \/ \E h \in HandlerIds : IndexRepoAccept(h)
    \/ \E h \in HandlerIds : IndexRepoSpawn(h)
    \/ \E h \in HandlerIds : GetStatusRLock(h)
    \/ \E h \in HandlerIds : GetStatusRUnlock(h)

Spec == Init /\ [][Next]_vars

SpecPairs == InitPairs /\ [][Next]_vars

\* The server process is stopped while a run is active (a signal, a crash,
\* the client closing the connection) and started again: the goroutines are
\* gone (their records stay as "killed"), indexState is the zero value, viper
\* holds what ReadInConfig finds in .ordiff.yaml; the SQLite file keeps every
\* row whose statement had returned.
Kill ==
    /\ \E r \in RunIds : Active(r)
    /\ Cardinality({r \in RunIds : runs[r].pc = "killed"}) < MaxKills
    /\ runs' = [r \in RunIds |-> IF Active(r) THEN [runs[r] EXCEPT !.pc = "killed"]
                                               ELSE runs[r]]
    /\ status' = ZeroStatus
    /\ mu' = [writer |-> <<>>, readers |-> {}]
    /\ hs' = [h \in HandlerIds |-> IdleHandler]
    /\ config' = [config EXCEPT !.viper = config.file]
    /\ accepted' = Len(runs)
    /\ UNCHANGED <<db, remote, faults, cli>>

NextCrash == Next \/ Kill

\* One client and one repository with listings of one pair at most, the
\* server being stopped and restarted.
SpecCrash == InitOnePair /\ [][NextCrash]_vars

\* Scheduling. A goroutine that can take a step takes one (every remote and
\* store call returns); sync.RWMutex hands the lock to a waiting writer
\* although readers keep coming (strong fairness of Lock); a handler that
\* holds the lock releases it, and the go statement of an accepted request
\* is executed.
RunStep(r) ==
    \/ StatusAssign(r) \/ MuUnlock(r) \/ FetchReleasesPage(r) \/ SaveReleaseStep(r)
    \/ StartPairs(r) \/ ProbePair(r) \/ FetchCommits(r) \/ SaveCommitStep(r)
    \/ FetchFileChanges(r) \/ SaveFileChangeStep(r) \/ NextPair(r) \/ FinishRun(r)

HandlerStep(h) ==
    \/ IndexRepoReject(h) \/ IndexRepoAccept(h) \/ IndexRepoSpawn(h) \/ GetStatusRUnlock(h)

Fairness ==
    /\ \A r \in 1..MaxRuns : WF_vars(r \in RunIds /\ RunStep(r))
    /\ \A r \in 1..MaxRuns : SF_vars(r \in RunIds /\ MuLock(r))
    /\ \A h \in Handlers : WF_vars(h \in HandlerIds /\ HandlerStep(h))

\* One client and one repository with listings of one pair at most, under
\* fair scheduling.
SpecLive == InitOnePair /\ [][Next]_vars /\ Fairness

\* The command-line variant alone: `ordiff index` invoked up to MaxRuns
\* times, one after the other, on either repository.
InitSync == InitWith(RemoteLists, {}, Repos, {<<>>})

NextSync ==
    \/ IndexCmdRun
    \/ IndexAllFetchReleases
    \/ IndexAllSaveRelease
    \/ IndexAllStartPairs
    \/ IndexAllProbe
    \/ IndexAllFetchCommits
    \/ IndexAllSaveCommit
    \/ IndexAllFetchFileChanges
    \/ IndexAllSaveFileChange
    \/ IndexAllNextPair
    \/ IndexCmdFinish

SpecSync == InitSync /\ [][NextSync]_vars

\* The commit messages the remote may report: up to MaxParts fragments, each
\* a prefix extractPrNumber looks for, a digit or another character.
Fragments ==
    {<<"#">>, <<"P", "R", " ", "#">>, <<"p", "u", "l", "l", "/">>, <<"4">>, <<"2">>, <<"x">>}

RECURSIVE Concats(_)
Concats(n) ==
    IF n = 0 THEN {<<>>}
    ELSE Concats(n - 1) \cup {m \o f : m \in Concats(n - 1), f \in Fragments}

Messages == Concats(MaxParts)

\* `ordiff index` on a repository of two releases, listed newest first, with
\* one commit and one changed file between them; the commit message is any
\* of Messages.
InitPr ==
    InitOf([list : {<< [tag |-> 2, sha |-> <<2>>], [tag |-> 1, sha |-> <<1>>] >>},
            repos : {{<<"ollama", "ollama">>}}, commits : {1}, files : {1},
            message : Messages], {})

SpecPr == InitPr /\ [][NextSync]_vars

\* Both variants on one store: the server with one client, and the command
\* line, on one repository with listings of one pair at most.
NextBoth == Next \/ NextSync

SpecBoth == InitOnePair /\ [][NextBoth]_vars

\* ================================================================= claims
ActiveRuns == {r \in RunIds : Active(r)}
Spawning == {h \in HandlerIds : hs[h].pc = "spawn"}

\* C1: single-flight. At most one indexing run is in flight at any time: the
\* goroutines that have not returned, plus the accepted requests that have
\* not yet spawned theirs, are never more than one; and a goroutine is
\* spawned for accepted requests only.
SingleFlight ==
    /\ Cardinality(ActiveRuns) + Cardinality(Spawning) <= 1
    /\ Len(runs) + Cardinality(Spawning) = accepted

\* C1 witness: a request is rejected while the run of another is active.
SingleFlightWitness ==
    \E h \in HandlerIds : hs[h].pc = "rejected" /\ ActiveRuns # {} /\ status.IsRunning

\* C2: a start request that finds a run active (it holds the lock and the
\* status says running) ends rejected, and none of its steps changes the
\* status, the store, the default repository or the set of runs.
RejectedHasNoEffect ==
    [][\A h \in HandlerIds :
          /\ (hs[h].pc = "locked" /\ status.IsRunning /\ hs'[h] # hs[h])
                => (hs'[h].pc = "rejected" /\ UNCHANGED <<status, db, config, runs, accepted>>)
          /\ (hs[h].pc = "rejected" /\ hs'[h] # hs[h])
                => UNCHANGED <<status, db, config, runs, accepted>>]_vars

\* C2 witness: a request was rejected while the run was in its pair loop
\* with records already in the store.
RejectedWitness ==
    \E h \in HandlerIds : \E r \in RunIds :
        /\ hs[h].pc = "rejected"
        /\ runs[r].pc = "saveFiles"
        /\ db.releases # {}

\* C3 (as claimed): while a run is in progress the progress a status poll
\* returns never decreases. A poll returns the status of an instant at which
\* no writer holds the lock, so successive polls see successive values of
\* status.Progress.
ProgressMonotone ==
    [][(status.IsRunning /\ status'.IsRunning) => status'.Progress >= status.Progress]_vars

\* The events of run r's trace, by position.
Trace(r) == runs[r].trace
Probes(r) == {k \in DOMAIN Trace(r) : Trace(r)[k].ev = "probe"}
Calls(r) == {k \in DOMAIN Trace(r) : Trace(r)[k].ev \in {"compare", "diff"}}
Writes(r) == {k \in DOMAIN Trace(r) : Trace(r)[k].ev \in {"saveCommit", "saveFile"}}

\* C4: skip correctness. A pair the store reports cached when the run probes
\* it is counted in skipped, and the run makes no remote call and no store
\* write for it: its probe is the only event of that pair.
SkipCorrect ==
    \A r \in RunIds :
        /\ runs[r].skipped = Cardinality({k \in Probes(r) : Trace(r)[k].ok})
        /\ \A k \in Probes(r) : Trace(r)[k].ok =>
              \A m \in DOMAIN Trace(r) : Trace(r)[m].i = Trace(r)[k].i => m = k

\* C4 witness: a run skipped a cached pair and has returned.
SkipWitness ==
    \E r \in RunIds : runs[r].pc = "done" /\ runs[r].skipped > 0
                      /\ \E k \in Probes(r) : Trace(r)[k].ok

HasAllPointers(r) == \A j \in DOMAIN runs[r].releases : runs[r].releases[j].CommitSHA # <<>>

\* C5 (as claimed): resumability. When a second run of the same repository
\* with the same release list follows a run in which nothing failed, it ends
\* with processed = 0 and skipped = pairCount, whatever the remote reported.
Resumable ==
    \A r1, r2 \in RunIds :
        ( /\ r1 < r2
          /\ runs[r2].pc = "done"
          /\ faults = 0
          /\ runs[r1].owner = runs[r2].owner /\ runs[r1].repo = runs[r2].repo
          /\ runs[r1].releases = runs[r2].releases
          /\ Len(runs[r2].releases) >= 2
          /\ HasAllPointers(r2) )
        => (runs[r2].processed = 0 /\ runs[r2].skipped = Len(runs[r2].releases) - 1)

\* C6: pairing correctness. The k-th probe of a run is that of pair k-1, the
\* pairs are visited in increasing order, every remote call and store write
\* of a pair follows its probe, every step works on (older = releases[i+1],
\* newer = releases[i]), and a run that has returned probed
\* each of its len(releases)-1 pairs once; none for 0 or 1 releases.
PairingCorrect ==
    \A r \in RunIds :
        LET t == Trace(r)
            rel == runs[r].releases
        IN
        /\ \A k \in DOMAIN t :
              /\ t[k].i >= 0 /\ t[k].i + 2 <= Len(rel)
              /\ t[k].from = rel[t[k].i + 2].TagName
              /\ t[k].to = rel[t[k].i + 1].TagName
              /\ \A m \in DOMAIN t : m < k => t[m].i <= t[k].i
              /\ t[k].ev # "probe" => \E m \in Probes(r) : m < k /\ t[m].i = t[k].i
        /\ \A k \in Probes(r) : t[k].i + 1 = Cardinality({m \in Probes(r) : m <= k})
        /\ runs[r].pc = "done" =>
              Cardinality(Probes(r)) = (IF Len(rel) >= 2 THEN Len(rel) - 1 ELSE 0)
        /\ Len(rel) <= 1 => t = <<>>

\* C6 witness: a run over three releases has returned after probing both
\* pairs and calling the remote for both.
PairingWitness ==
    \E r \in RunIds :
        /\ runs[r].pc = "done" /\ Len(runs[r].releases) = 3
        /\ Cardinality(Probes(r)) = 2
        /\ \E k, m \in Calls(r) : Trace(r)[k].i = 0 /\ Trace(r)[m].i = 1

\* The release of run r tagged tag.
ReleaseOf(r, tag) ==
    CHOOSE x \in {runs[r].releases[j] : j \in DOMAIN runs[r].releases} : x.TagName = tag
Before(t1, t2) == t1.s < t2.s \/ (t1.s = t2.s /\ t1.ns <= t2.ns)

\* C7 (as claimed): every pair a run works on is in chronological order and
\* adjacent in publish time, whatever order the remote lists the releases in.
ChronologicalPairs ==
    \A r \in RunIds : \A k \in DOMAIN Trace(r) :
        LET older == ReleaseOf(r, Trace(r)[k].from)
            newer == ReleaseOf(r, Trace(r)[k].to)
        IN
        /\ Before(older.PublishedAt, newer.PublishedAt)
        /\ \A j \in DOMAIN runs[r].releases :
              LET x == runs[r].releases[j] IN
              ~(x # older /\ x # newer /\ Before(older.PublishedAt, x.PublishedAt)
                /\ Before(x.PublishedAt, newer.PublishedAt))

\* The pairs of run r whose commit fetch or diff fetch failed.
FailedPairs(r) == {Trace(r)[k].i : k \in {m \in Calls(r) : ~Trace(r)[m].ok}}
\* The pairs run r found not cached.
Attempted(r) == {Trace(r)[k].i : k \in {m \in Probes(r) : ~Trace(r)[m].ok}}

\* C8 (as claimed): a pair whose commit fetch or diff fetch failed is counted
\* neither in processed nor in skipped: the final processed count is the
\* number of attempted pairs none of whose fetches failed.
FailedPairNotCounted ==
    \A r \in RunIds : runs[r].pc = "done" =>
        runs[r].processed = Cardinality(Attempted(r) \ FailedPairs(r))

\* The pairs of run r in which a release has no commit identifier.
NoPointerPairs(r) ==
    {i \in 0..(Len(runs[r].releases) - 2) :
        runs[r].releases[i + 2].CommitSHA = <<>> \/ runs[r].releases[i + 1].CommitSHA = <<>>}

\* C9: missing commit pointer. For a pair in which a release has an empty
\* commit identifier the run makes no remote call and writes no commit and
\* no file change, and the store never reports the pair cached: every probe
\* of it answers false.
NoPointerNeverCached ==
    \A r \in RunIds : \A i \in NoPointerPairs(r) :
        /\ \A k \in DOMAIN Trace(r) : Trace(r)[k].i = i =>
              (Trace(r)[k].ev = "probe" /\ ~Trace(r)[k].ok)
        /\ ~HasFileChangesCached(db, runs[r].owner, runs[r].repo,
                                 runs[r].releases[i + 2].TagName,
                                 runs[r].releases[i + 1].TagName)

\* C9 witness: a second run has returned after attempting, again, a pair
\* with a missing commit pointer.
NoPointerWitness ==
    \E r1, r2 \in RunIds :
        /\ r1 < r2 /\ runs[r2].pc = "done" /\ runs[r1].repo = runs[r2].repo
        /\ runs[r1].owner = runs[r2].owner
        /\ \E i \in NoPointerPairs(r2) : i \in Attempted(r1) /\ i \in Attempted(r2)

\* C10 (as claimed): a pair with a missing commit pointer increments neither
\* counter of the final result: processed + skipped never exceeds the number
\* of pairs whose two releases both have a commit identifier.
NoPointerNotCounted ==
    \A r \in RunIds : runs[r].pc = "done" =>
        runs[r].processed + runs[r].skipped
            <= Cardinality((0..(Len(runs[r].releases) - 2)) \ NoPointerPairs(r))

\* The error IndexAll returns when the release listing fails.
ListingError(e) == e # <<>> /\ e[1] = "failed to fetch releases: "

\* C11: a failure of the remote on any page of the release listing is fatal.
\* The asynchronous run has then made no release save, no remote call and no
\* store write of the pair loop, counted no pair, and only its error write
\* remains; once it has returned, the status (until a later request replaces
\* it) says not running with the error. The command returns the error to
\* its caller after no save, no call and no pair. A failed run that is the
\* only run of its behaviour leaves the store empty.
ListingFailureFatal ==
    /\ \A r \in RunIds : runs[r].err # <<>> =>
          /\ runs[r].saved = 0 /\ runs[r].trace = <<>>
          /\ runs[r].processed = 0 /\ runs[r].skipped = 0
          /\ runs[r].pc \in {"lock", "write", "done"} /\ runs[r].ret = "done"
          /\ (runs[r].pc = "done" /\ accepted = r) =>
                (~status.IsRunning /\ status.Error = <<"Failed to fetch releases: ", "err">>)
          /\ (Len(runs) = 1 /\ cli.n = 0) => db = EmptyDB
    /\ ListingError(cli.err) =>
          /\ cli.pc = "exited"
          /\ cli.saved = 0 /\ cli.trace = <<>>
          /\ cli.processed = 0 /\ cli.skipped = 0
          /\ (cli.n = 1 /\ accepted = 0) => db = EmptyDB

\* C11 witness: an asynchronous run has returned after the listing failed on
\* a later page (the progress of the first page is still in the status).
ListingFailureWitness ==
    \E r \in RunIds :
        /\ runs[r].pc = "done" /\ runs[r].err # <<>> /\ accepted = r
        /\ ~status.IsRunning /\ status.Error # <<>> /\ status.Progress > 0

\* C12 (as claimed): a failure to persist one release record is non-fatal in
\* both variants. A run ends in an error for a failed listing only; every
\* other run saved (or tried to save) each release it listed, went through
\* all its pairs, and, for the asynchronous variant, left no error in the
\* status.
ReleaseSaveNonFatal ==
    /\ cli.pc = "exited" =>
          /\ cli.err = <<>> \/ ListingError(cli.err)
          /\ ~ListingError(cli.err) =>
                (cli.saved = Len(cli.releases) /\ cli.i >= Len(cli.releases) - 1)
    /\ \A r \in RunIds : (runs[r].pc = "done" /\ runs[r].err = <<>>) =>
          /\ runs[r].saved = Len(runs[r].releases)
          /\ runs[r].i >= Len(runs[r].releases) - 1
          /\ accepted = r => status.Error = <<>>

\* What the store answers for repository b: getReleases, getRelease for
\* every tag and getCommitsBetween for every two tags.
Tags == 1..MaxReleases
Answers(d, b) ==
    <<GetReleases(d, b[1], b[2]),
      [t \in Tags |-> GetRelease(d, b[1], b[2], t)],
      [p \in Tags \X Tags |-> GetCommitsBetween(d, b[1], b[2], p[1], p[2])]>>

\* C13 (as claimed): release and commit identities are scoped to the
\* repository. A step in which a run of repository A saves a release or a
\* commit leaves the answers of the store for every other repository
\* unchanged.
SaveIsRepoScoped ==
    [][\A r \in RunIds :
          (runs'[r] # runs[r] /\ (db'.releases # db.releases \/ db'.commits # db.commits)) =>
              \A b \in remote.repos :
                  b # <<runs[r].owner, runs[r].repo>> => Answers(db', b) = Answers(db, b)]_vars

\* The position of the last release save of a run record for tag t that was
\* made or is being made (0 if none), and the row such a save writes.
SavedTags(x) == {x.releases[k].TagName : k \in 1..x.saved}
ReleaseRow(r) ==
    [tag_name |-> r.TagName, name |-> r.Name,
     published_at |-> FormatRFC3339(r.PublishedAt), commit_sha |-> r.CommitSHA,
     body |-> r.Body, owner |-> r.Owner, repo |-> r.Repo]

\* The commits a run record has saved, no save having failed: the m-th
\* save event of pair i saved the m-th commit of the compare of that pair.
CommitRow(c) ==
    [sha |-> c.SHA, message |-> c.Message, author |-> c.Author,
     date |-> FormatRFC3339(c.Date), owner |-> c.Owner, repo |-> c.Repo,
     pr_number |-> c.PrNumber]
SavedCommits(x) ==
    {ToCommits(remote.commits, x.releases[x.trace[k].i + 2].CommitSHA,
               x.releases[x.trace[k].i + 1].CommitSHA,
               x.releases[x.trace[k].i + 1].PublishedAt, remote.message,
               x.owner, x.repo)[Cardinality({m \in 1..k :
                   x.trace[m].ev = "saveCommit" /\ x.trace[m].i = x.trace[k].i})] :
        k \in {m \in DOMAIN x.trace : x.trace[m].ev = "saveCommit"}}

\* The release identities (owner, repo, tag) saved so far, no save having
\* failed.
SavedIdentities ==
    UNION {{<<runs[r].owner, runs[r].repo, t>> : t \in SavedTags(runs[r])} : r \in RunIds}

\* C14 (as claimed): idempotent upsert. As long as no save failed, the store
\* holds exactly one record for every release identity (owner, repo, tag)
\* that was saved, with the attribute values that were saved (a release is
\* saved with the same values each time), and the record of every commit
\* that was saved for a repository; and saving a record that the store holds
\* once more leaves the store as it is.
IdempotentUpsert ==
    faults = 0 =>
        /\ \A id \in SavedIdentities :
              Cardinality({x \in db.releases :
                  x.owner = id[1] /\ x.repo = id[2] /\ x.tag_name = id[3]}) = 1
        /\ \A r \in RunIds : \A k \in 1..runs[r].saved :
              ReleaseRow(runs[r].releases[k]) \in db.releases
        /\ \A r \in RunIds : \A k \in 1..runs[r].saved :
              ReleaseRow(runs[r].releases[k]) \in db.releases =>
                  SaveRelease(db, runs[r].releases[k]) = db
        /\ \A r \in RunIds : \A c \in SavedCommits(runs[r]) :
              /\ CommitRow(c) \in db.commits
              /\ Cardinality({x \in db.commits : x.sha = c.SHA /\ x.owner = c.Owner
                                                  /\ x.repo = c.Repo}) = 1
              /\ SaveCommit(db, c) = db

\* What the status is after a complete write: the zero value, the status an
\* accepted start assigns, the progress and the message one
\* updateIndexProgress call passes together, the error setIndexError adds
\* to the status of the listing phase, or the summary of finishIndexing.
AfterCompleteWrite(s) ==
    \/ s = ZeroStatus
    \/ \E b \in remote.repos :
          /\ s.Owner = b[1] /\ s.Repo = b[2] /\ s.Total = StatusTotal
          /\ \/ s = StartStatus(b[1], b[2])
             \/ /\ s.IsRunning /\ s.Error = <<>>
                /\ \/ s.Message = <<"Fetching releases...">>
                   \/ s.Message = <<"Saving releases to cache...">> /\ s.Progress = 20
                   \/ s.Message = <<"Saving releases...">> /\ s.Progress \in 20..29
                   \/ /\ s.Message = <<"Fetching commits and files for missing release pairs...">>
                      /\ s.Progress = 30
                   \/ /\ s.Message[1] = "Processing "
                      /\ s.Progress \in 30..99
             \/ /\ ~s.IsRunning /\ s.Error = <<"Failed to fetch releases: ", "err">>
                /\ s.Message = <<"Fetching releases...">>
             \/ /\ ~s.IsRunning /\ s.Error = <<>> /\ s.Progress = s.Total
                /\ s.Message[1] = "Indexed " /\ s.Message[2] = b[1] /\ s.Message[3] = b[2]

\* C15: a status read never returns a partially updated snapshot. While a
\* get_index_status request holds its copy, no writer is between two of its
\* field assignments, the copy is the whole status, and that status is one a
\* complete write leaves.
SnapshotAtomic ==
    \A h \in HandlerIds : hs[h].pc = "rlocked" =>
        /\ mu.writer = <<>>
        /\ \A r \in RunIds : runs[r].pc # "write"
        /\ \A g \in HandlerIds : hs[g].pc # "locked"
        /\ hs[h].snap = status
        /\ AfterCompleteWrite(hs[h].snap)

\* C15 witness: a snapshot taken while the run is between its progress write
\* of a pair and the remote call for it.
SnapshotWitness ==
    \E h \in HandlerIds : \E r \in RunIds :
        /\ hs[h].pc = "rlocked" /\ runs[r].pc = "fetchCommits"
        /\ hs[h].snap.IsRunning /\ hs[h].snap.Message[1] = "Processing "

\* The summary a successful run passes to finishIndexing.
Summary(x) == <<"Indexed ", x.owner, x.repo, x.processed, x.skipped>>

\* Every accepted request gets its goroutine, and every goroutine returns.
RunsEnd ==
    /\ \A h \in Handlers :
          [](h \in HandlerIds /\ hs[h].pc = "spawn" => <>(h \in HandlerIds /\ hs[h].pc = "idle"))
    /\ \A r \in 1..MaxRuns : [](r \in RunIds => <>(r \in RunIds /\ runs[r].pc = "done"))

\* When the latest accepted run has returned, the status is terminal: not
\* running, the message is the run's summary or, after a failure, its error;
\* and a start request would be accepted.
TerminalStatus ==
    \A r \in RunIds : (runs[r].pc = "done" /\ accepted = r) =>
        /\ ~status.IsRunning
        /\ status.Message = (IF runs[r].err = <<>> THEN Summary(runs[r])
                             ELSE <<"Failed to fetch releases: ", "err">>)
        /\ \A b \in remote.repos : TryStart(status, b[1], b[2]).accepted

\* C16 (as claimed): under fair scheduling every accepted run eventually
\* ends, and when it has ended the status is terminal with the summary or the
\* error as its message, and a new start request is accepted.
RunsEndTerminal == RunsEnd /\ []TerminalStatus

\* The pairs of a run record, and of a pair the release published earlier
\* and the one published later.
PairCount(x) == IF Len(x.releases) >= 2 THEN Len(x.releases) - 1 ELSE 0
Older(x, i) ==
    IF Before(x.releases[i + 2].PublishedAt, x.releases[i + 1].PublishedAt)
    THEN x.releases[i + 2] ELSE x.releases[i + 1]
Newer(x, i) ==
    IF Before(x.releases[i + 2].PublishedAt, x.releases[i + 1].PublishedAt)
    THEN x.releases[i + 1] ELSE x.releases[i + 2]

\* The file-change rows of the store keyed to (fromTag, toTag).
FileRows(d, owner, repo, fromTag, toTag) ==
    {n \in DOMAIN d.file_changes :
        /\ d.file_changes[n].owner = owner /\ d.file_changes[n].repo = repo
        /\ d.file_changes[n].from_release = fromTag
        /\ d.file_changes[n].to_release = toTag}

\* What a clean first run x leaves, the pairs keyed by key(x, i).
CleanResult(x, from(_, _), to(_, _)) ==
    /\ x.processed = PairCount(x) /\ x.skipped = 0
    /\ db.releases = {ReleaseRow(x.releases[k]) : k \in DOMAIN x.releases}
    /\ db.commits =
          UNION {{CommitRow(c) : c \in
                    {ToCommits(remote.commits, x.releases[i + 2].CommitSHA,
                               x.releases[i + 1].CommitSHA, x.releases[i + 1].PublishedAt,
                               remote.message, x.owner, x.repo)[m] : m \in 1..remote.commits}} :
                 i \in 0..(PairCount(x) - 1)}
    /\ Len(db.file_changes) = PairCount(x) * remote.files
    /\ \A i \in 0..(PairCount(x) - 1) :
          LET rows == FileRows(db, x.owner, x.repo, from(x, i).TagName, to(x, i).TagName) IN
          /\ {db.file_changes[n].filename : n \in rows} = 1..remote.files
          /\ Cardinality(rows) = remote.files
          /\ remote.files >= 1 =>
                HasFileChangesCached(db, x.owner, x.repo, from(x, i).TagName, to(x, i).TagName)

\* The run records that are the first and only run on an empty store, have
\* ended, and in which no call failed and no release lacks its commit.
CleanFirstRuns ==
    {x \in {runs[r] : r \in RunIds} \cup {cli} :
        /\ x.pc \in {"done", "exited"} /\ faults = 0
        /\ Len(runs) + cli.n = 1 /\ accepted + cli.n = 1
        /\ \A k \in DOMAIN x.releases : x.releases[k].CommitSHA # <<>>}

\* C17 (as claimed): a clean first run ends with processed = pairCount and
\* skipped = 0; the store holds every release, every commit the remote
\* reported and, for each pair, exactly the file changes the remote reported,
\* keyed to (older.tag, newer.tag), and reports the pair cached when it has a
\* changed file.
CleanFirstRun == \A x \in CleanFirstRuns : CleanResult(x, Older, Newer)

\* C18 (as claimed): in every status a poll can return, the counters are on
\* the 0-100 scale: 0 <= progress <= total, total = 100 once a run has been
\* accepted, and during the release-fetch phase the progress stays within
\* the band of that phase (the first 30 of the 100).
ProgressOnScale ==
    mu.writer = <<>> =>
        /\ 0 <= status.Progress /\ status.Progress <= status.Total
        /\ accepted > 0 => status.Total = StatusTotal
        /\ (status.IsRunning /\ status.Message = <<"Fetching releases...">>) =>
               status.Progress <= 30

\* The pairs a run record has gone through completely.
Completed(x) == {i \in 0..(PairCount(x) - 1) : i < x.i}

\* C19 (as claimed): interrupted indexing resumes where it left off. When a
\* run was interrupted and a later run of the same repository over the same
\* releases has ended, no call having failed and every release having its
\* commit, the store holds for every pair exactly the file changes the remote
\* reports for it, and the later run fetched only pairs the interrupted run
\* had not completed.
ResumesAfterInterrupt ==
    \A r1, r2 \in RunIds :
        ( /\ r1 < r2 /\ runs[r1].pc = "killed" /\ runs[r2].pc = "done"
          /\ faults = 0 /\ runs[r2].err = <<>>
          /\ HasAllPointers(r2) )
        => /\ \A i \in 0..(PairCount(runs[r2]) - 1) :
                 LET rows == FileRows(db, runs[r2].owner, runs[r2].repo,
                                      runs[r2].releases[i + 2].TagName,
                                      runs[r2].releases[i + 1].TagName) IN
                 /\ {db.file_changes[n].filename : n \in rows} = 1..remote.files
                 /\ Cardinality(rows) = remote.files
           /\ \A i \in Attempted(r2) : i \notin Completed(runs[r1])

\* The digits that directly follow position k of msg, as a number; <<>> when
\* the character there is not a digit.
RECURSIVE DigitsFrom(_, _)
DigitsFrom(msg, k) ==
    IF k <= Len(msg) /\ msg[k] \in Digits THEN <<msg[k]>> \o DigitsFrom(msg, k + 1) ELSE <<>>

\* Where prefix occurs in msg directly followed by a digit (0-based starts).
FollowedByDigit(msg, prefix) ==
    {k \in 0..(Len(msg) - Len(prefix)) :
        /\ SubSeq(msg, k + 1, k + Len(prefix)) = prefix
        /\ DigitsFrom(msg, k + Len(prefix) + 1) # <<>>}

\* The number the claim describes: the prefixes in order, the first that is
\* directly followed by a decimal number gives that number; none, no number.
RECURSIVE ClaimedPrFrom(_, _)
ClaimedPrFrom(msg, p) ==
    IF p > Len(Prefixes) THEN <<>>
    ELSE LET hits == FollowedByDigit(msg, Prefixes[p]) IN
         IF hits = {} THEN ClaimedPrFrom(msg, p + 1)
         ELSE LET k == CHOOSE k \in hits : \A j \in hits : k <= j
              IN <<Sscanf(DigitsFrom(msg, k + Len(Prefixes[p]) + 1))>>

\* C20 (as claimed): the PR number of every commit the indexer built or
\* stored is the number the claim describes for the commit's message.
PrNumberAsClaimed ==
    /\ \A c \in db.commits : c.pr_number = ClaimedPrFrom(c.message, 1)
    /\ \A k \in DOMAIN cli.commits :
          cli.commits[k].PrNumber = ClaimedPrFrom(cli.commits[k].Message, 1)


\* The step in which a run that met no fatal error reaches its end: the
\* goroutine leaves the pair loop, or IndexAll has returned nil.
RunEnds(r) == runs[r].pc = "pairLoop" /\ runs[r].i >= runs[r].totalPairs /\ runs'[r] # runs[r]
CmdEnds == cli.pc = "pairLoop" /\ cli'.pc = "exited"

\* C21 (as claimed): the persisted default repository (.ordiff.yaml) changes
\* only in the step that ends a run without a fatal error, and after that
\* step it is the (owner, repo) of that run; a run that aborts and a rejected
\* request leave it as it is.
DefaultFollowsRun ==
    [][/\ config'.file # config.file => (CmdEnds \/ \E r \in RunIds : RunEnds(r))
       /\ \A r \in RunIds : RunEnds(r) => config'.file = <<runs[r].owner, runs[r].repo>>
       /\ CmdEnds => config'.file = <<cli.owner, cli.repo>>]_vars


\* The estimate for every number of pairs up to MaxTotalPairs and every mix
\* of skipped and processed pairs the loop can reach (the pair just counted
\* included): at least 30 and strictly below the total.
EstimateBelowTotal ==
    \A totalPairs \in 1..MaxTotalPairs : \A skipped \in 0..(totalPairs - 1) :
        \A processed \in 1..(totalPairs - skipped) :
            /\ PairProgress(processed, skipped, totalPairs) >= 30
            /\ PairProgress(processed, skipped, totalPairs) < StatusTotal

\* The messages of the pair-processing phase.
PairPhase(s) ==
    \/ s.Message = <<"Fetching commits and files for missing release pairs...">>
    \/ (s.Message # <<>> /\ s.Message[1] = "Processing ")

\* C22: the progress of the pair-processing phase. Every status the loop
\* writes (its message names the pair and the two counters) carries
\* 30 + processed*70/(processed + remainingPairs + 1) with remainingPairs =
\* totalPairs - skipped - processed, and every status of the phase is
\* strictly below its total of 100, as is every write of the phase still to
\* be made; from the start of the phase on, the progress equals the total
\* only in the status finishIndexing wrote, the run no longer running.
PairProgressBelowTotal ==
    /\ EstimateBelowTotal
    /\ \A r \in RunIds :
          /\ (runs[r].ret \in {"fetchCommits", "pairLoop"} /\ runs[r].pc \in {"lock", "write"}) =>
                \A k \in DOMAIN runs[r].pend :
                    runs[r].pend[k][1] = "Progress" => runs[r].pend[k][2] < StatusTotal
          /\ (Active(r) /\ mu.writer = <<>> /\ PairPhase(status)) =>
                /\ status.IsRunning
                /\ status.Total = StatusTotal
                /\ status.Progress >= 30 /\ status.Progress < status.Total
                /\ status.Message[1] = "Processing " =>
                      LET processed == status.Message[4]
                          skipped == status.Message[5]
                          remainingPairs == (Len(runs[r].releases) - 1) - skipped - processed
                      IN /\ remainingPairs >= 0
                         /\ status.Progress =
                               30 + ((processed * 70) \div (processed + remainingPairs + 1))
    /\ (mu.writer = <<>> /\ status.Message # <<>> /\ status.Message[1] = "Indexed ") =>
          (~status.IsRunning /\ status.Progress = status.Total)

\* C22 witness: the loop has written the progress of a pair it processes
\* after it skipped another, the last pair of the run.
PairProgressWitness ==
    \E r \in RunIds :
        /\ runs[r].pc = "fetchCommits" /\ mu.writer = <<>>
        /\ status.Message[1] = "Processing "
        /\ status.Message[4] >= 1 /\ status.Message[5] >= 1
        /\ status.Message[4] + status.Message[5] = runs[r].totalPairs


\* The positions at which the goroutine is in, or about to make, a call to
\* the remote source or to the store.
CallPositions == {"fetchRel", "saveRel", "pairLoop", "fetchCommits", "saveCommits", "saveFiles"}

\* C23: the status lock is never held across a remote call or a store call.
\* Whenever the goroutine of a run is at a remote or store call it does not
\* hold indexState.mu, and no other run does: the lock is free or held by a
\* request handler inside its own critical section, which makes no such
\* call. A run holds the lock only between Lock and Unlock of a status
\* writer, where it does nothing but assign fields; so a status read that
\* arrives while the run is in a call waits for no call to return.
LockNotHeldAcrossCalls ==
    /\ \A r \in RunIds :
          /\ mu.writer = <<"run", r>> <=> runs[r].pc = "write"
          /\ runs[r].pc \in CallPositions =>
                /\ mu.writer = <<>> \/ mu.writer[1] = "handler"
                /\ \A h \in HandlerIds :
                      (hs[h].pc = "idle" /\ \A g \in HandlerIds : hs[g].pc # "locked")
                          => ENABLED GetStatusRLock(h)
    /\ \A h \in HandlerIds :
          /\ mu.writer = <<"handler", h>> <=> hs[h].pc = "locked"
          /\ h \in mu.readers <=> hs[h].pc = "rlocked"

\* C23 witness: a start request holds the lock for its test while the run is
\* about to save a file change, a release and a commit already stored.
LockWitness ==
    \E h \in HandlerIds : \E r \in RunIds :
        /\ hs[h].pc = "locked" /\ runs[r].pc = "saveFiles" /\ runs[r].files # <<>>
        /\ db.commits # {} /\ mu.writer = <<"handler", h>>


\* The release identities and the commit identities a store holds.
ReleaseIds(d) == {<<x.owner, x.repo, x.tag_name>> : x \in d.releases}
CommitIds(d) == {<<x.owner, x.repo, x.sha>> : x \in d.commits}

\* C24: partial progress is never rolled back. Over the runs of one
\* repository, failed listings, failed fetches and failed saves included, no
\* step removes a release identity or a commit identity from the store, and
\* the file-change rows are only added to: the rows of before are the first
\* rows of after, unchanged.
NeverRolledBack ==
    [][/\ ReleaseIds(db) \subseteq ReleaseIds(db')
       /\ CommitIds(db) \subseteq CommitIds(db')
       /\ Len(db.file_changes) <= Len(db'.file_changes)
       /\ SubSeq(db'.file_changes, 1, Len(db.file_changes)) = db.file_changes]_vars

\* C24 witness: a second run has ended after a first run that stored the
\* commits of a pair and then failed to fetch its file changes, the commits
\* and the file changes of the other pair being in the store.
RolledBackWitness ==
    \E r1, r2 \in RunIds :
        /\ r1 < r2 /\ runs[r2].pc = "done" /\ runs[r2].err = <<>>
        /\ \E k \in DOMAIN Trace(r1) : Trace(r1)[k].ev = "diff" /\ ~Trace(r1)[k].ok
        /\ \E k \in DOMAIN Trace(r1) : Trace(r1)[k].ev = "saveCommit" /\ Trace(r1)[k].ok
        /\ Cardinality(db.commits) >= 2 /\ Len(db.file_changes) > MaxFiles
        /\ Cardinality(db.releases) = MaxReleases


\* The events of run r's trace for pair i, and the positions at which the
\* diff fetch of a pair failed after a commit of the pair had been saved.
EventsOf(r, i, ev) == {k \in DOMAIN Trace(r) : Trace(r)[k].i = i /\ Trace(r)[k].ev = ev}
DiffFailedAfterCommits(r) ==
    {k \in DOMAIN Trace(r) :
        /\ Trace(r)[k].ev = "diff" /\ ~Trace(r)[k].ok
        /\ \E m \in EventsOf(r, Trace(r)[k].i, "saveCommit") : m < k /\ Trace(r)[m].ok}

\* Run r stored a file-change row for the pair (from, to).
WroteRows(r, from, to) ==
    \E k \in DOMAIN Trace(r) :
        /\ Trace(r)[k].ev = "saveFile" /\ Trace(r)[k].ok
        /\ Trace(r)[k].from = from /\ Trace(r)[k].to = to

ClaimedCommitsBetween(d, owner, repo, fromTag, toTag) ==
    LET from == {x \in d.releases : x.owner = owner /\ x.repo = repo /\ x.tag_name = fromTag}
        to == {x \in d.releases : x.owner = owner /\ x.repo = repo /\ x.tag_name = toTag}
        rows == {c \in d.commits :
                    /\ c.owner = owner /\ c.repo = repo
                    /\ \E r1 \in from, r2 \in to :
                          c.date >= r1.published_at /\ c.date <= r2.published_at}
        sorted == OrderByDateAsc(rows)
    IN [j \in DOMAIN sorted |->
           [SHA |-> sorted[j].sha, Message |-> sorted[j].message,
            Author |-> sorted[j].author, Date |-> ParseRFC3339(sorted[j].date),
            Owner |-> owner, Repo |-> repo, PrNumber |-> sorted[j].pr_number]]

\* C26 (as claimed): in every state of the store, for every repository and
\* every two tags, getCommitsBetween answers the commits of that repository
\* authored within the publish times of the two tags, both being releases of
\* that repository, oldest first, and no commit when a tag is not a release
\* of the repository or the first is published after the second.
CommitsBetweenAsClaimed ==
    \A b \in remote.repos : \A fromTag, toTag \in Tags :
        GetCommitsBetween(db, b[1], b[2], fromTag, toTag)
            = ClaimedCommitsBetween(db, b[1], b[2], fromTag, toTag)


\* The key of every file-change row is a pair of adjacent releases of the
\* listing: from_release the tag listed right after to_release.
RowKeysAdjacent ==
    \A n \in DOMAIN db.file_changes :
        LET row == db.file_changes[n] IN
        /\ row.from_release # 0 /\ row.to_release # 0
        /\ <<row.owner, row.repo>> \in remote.repos
        /\ \E j \in 1..(Len(remote.list) - 1) :
              row.from_release = remote.list[j + 1].tag /\ row.to_release = remote.list[j].tag

\* The run records that take the step: a goroutine of the server or the
\* command.
Stepping ==
    {runs[r] : r \in {q \in RunIds : runs'[q] # runs[q]}} \cup (IF cli' # cli THEN {cli} ELSE {})

\* C27: every file-change row is stamped with the pair being processed. A
\* step that changes the file changes of the store adds one row, it is the
\* step of one run, and the row carries that run's owner and repo and the
\* tags (releases[i+1], releases[i]) of the pair the run is at, the two being
\* different; and every row in the store is keyed by two adjacent releases
\* of the listing, older position first, never by an unset tag.
StampedWithPair ==
    /\ []RowKeysAdjacent
    /\ [][db'.file_changes # db.file_changes =>
            /\ Len(db'.file_changes) = Len(db.file_changes) + 1
            /\ SubSeq(db'.file_changes, 1, Len(db.file_changes)) = db.file_changes
            /\ Cardinality(Stepping) = 1
            /\ \A x \in Stepping :
                  LET row == db'.file_changes[Len(db'.file_changes)] IN
                  /\ x.i + 2 <= Len(x.releases)
                  /\ row.owner = x.owner /\ row.repo = x.repo
                  /\ row.from_release = x.releases[x.i + 2].TagName
                  /\ row.to_release = x.releases[x.i + 1].TagName
                  /\ row.from_release # row.to_release
                  /\ row.filename = Head(x.files).Filename]_vars

\* C27 witness: the store holds file changes written by a run of the server
\* and file changes written by the command, both having ended.
StampedWitness ==
    /\ cli.pc = "exited"
    /\ \E k \in DOMAIN cli.trace : cli.trace[k].ev = "saveFile" /\ cli.trace[k].ok
    /\ \E r \in RunIds : runs[r].pc = "done" /\ WroteRows(r, 1, 2)
    /\ Len(db.file_changes) = 2 * MaxFiles


\* The run records (goroutines of the server and the command) that have
\* entered the pair loop: its counters exist from then on.
InPair(x) == x.pc \in {"fetchCommits", "saveCommits", "saveFiles"}
LoopStarted(x) ==
    /\ x.err = <<>>
    /\ \/ x.pc \in {"pairLoop", "done", "exited"} \/ InPair(x)
       \/ x.pc \in {"lock", "write"} /\ x.ret \in {"pairLoop", "fetchCommits", "done"}
LoopRecords == {x \in {runs[r] : r \in RunIds} \cup {cli} : LoopStarted(x)}

\* The pairs a record has visited so far: those it is past and the one it
\* is at, once probed.
Visited(x) ==
    x.i + (IF InPair(x) \/ (x.pc \in {"lock", "write"} /\ x.ret = "fetchCommits") THEN 1 ELSE 0)

\* The counters of a record against its history: every probe counted its
\* pair in exactly one of the two counters, by one; `total` is the bound on
\* the visited pairs.
CountersWithin(x, total) ==
    LET probes == {k \in DOMAIN x.trace : x.trace[k].ev = "probe"} IN
    /\ x.processed >= 0 /\ x.skipped >= 0
    /\ x.processed + x.skipped <= Visited(x)
    /\ Visited(x) <= total
    /\ Visited(x) = Cardinality(probes)
    /\ x.skipped = Cardinality({k \in probes : x.trace[k].ok})
    /\ x.processed = Cardinality({k \in probes : ~x.trace[k].ok})

\* The summary a run that left the loop reports carries the counters as
\* they were when the loop exited.
ReportsLoopCounters ==
    \A r \in RunIds : (LoopStarted(runs[r]) /\ runs[r].ret = "done") =>
        /\ runs[r].i >= runs[r].totalPairs
        /\ runs[r].pc = "lock" => runs[r].pend = finishIndexing(TRUE, Summary(runs[r]))
        /\ (runs[r].pc = "done" /\ accepted = r /\ mu.writer = <<>>) =>
              status.Message = Summary(runs[r])

\* C28 (as claimed): the counters of the pair loop, with totalPairs the
\* value the code computes, len(releases) - 1.
CountersWithinTotalPairs ==
    /\ \A x \in LoopRecords : CountersWithin(x, Len(x.releases) - 1)
    /\ ReportsLoopCounters

\* C28 (amended): in every state of a run that has entered the pair loop,
\* processed >= 0, skipped >= 0 and processed + skipped <= pairs visited so
\* far <= the number of pairs of the list, which is len(releases) - 1 for a
\* list that is not empty and 0 for an empty one; every visited pair changed
\* exactly one of the two counters by 1; and the counts reported at the end
\* are those reached when the loop exited.
CountersWithinPairs ==
    /\ \A x \in LoopRecords : CountersWithin(x, PairCount(x))
    /\ ReportsLoopCounters

\* C28 witness: a run over two pairs has ended having skipped one pair and
\* processed the other, and the status carries its summary.
CountersWitness ==
    \E r \in RunIds :
        /\ runs[r].pc = "done" /\ runs[r].skipped = 1 /\ runs[r].processed = 1
        /\ status.Message = Summary(runs[r])


\* The latest accepted request's run, once its goroutine exists.
Latest == IF accepted \in RunIds THEN {accepted} ELSE {}

\* C29: an accepted start replaces the whole status. Right after the
\* acceptance (the handler is about to start the goroutine) the status has
\* the owner and repo of the request, running, progress 0, total 100 and no
\* error; and while a run is marked running, every complete status, and so
\* every snapshot a status request takes, has the owner and repo of the
\* latest accepted request, no error, and a message of that run: the
\* starting message or one of its progress messages, never the summary or
\* the error of a run before it.
StartReplacesStatus ==
    /\ \A h \in HandlerIds : hs[h].pc = "spawn" =>
          /\ status.Owner = hs[h].owner /\ status.Repo = hs[h].repo
          /\ status.IsRunning /\ status.Progress = 0 /\ status.Total = 100
          /\ status.Error = <<>>
          /\ status.Message = <<"Starting indexing...">>
    /\ \A h \in HandlerIds : (hs[h].pc = "rlocked" /\ hs[h].snap.IsRunning) =>
          LET snap == hs[h].snap IN
          /\ snap.Error = <<>>
          /\ snap.Message # <<>>
          /\ snap.Message[1] \notin {"Indexed ", "Failed to fetch releases: "}
          /\ \A r \in Latest :
                /\ snap.Owner = runs[r].owner /\ snap.Repo = runs[r].repo
                /\ snap.Message[1] = "Processing " =>
                      (snap.Message[4] <= runs[r].processed /\ snap.Message[5] <= runs[r].skipped)
          /\ \A g \in HandlerIds : hs[g].pc = "spawn" =>
                (snap.Owner = hs[g].owner /\ snap.Repo = hs[g].repo)

\* C29 witness: a snapshot taken during the run of the other repository that
\* followed a run whose listing failed and left its error in the status.
StartReplacesWitness ==
    \E h \in HandlerIds :
        /\ hs[h].pc = "rlocked" /\ hs[h].snap.IsRunning
        /\ Len(runs) = 2 /\ runs[1].err # <<>> /\ runs[1].pc = "done"
        /\ runs[2].owner # runs[1].owner
        /\ hs[h].snap.Owner = runs[2].owner
        /\ runs[2].pc = "saveRel"


\* The fields the status writers of a run assign.
WrittenFields == {"Progress", "Total", "Message", "IsRunning", "Error", "ProgressFromTotal"}

\* The status belongs to the run in flight: a goroutine that has not
\* returned, or the accepted request about to start its goroutine.
RunInFlight ==
    /\ \A r \in RunIds : runs[r].pc = "done" =>
          (runs[r].pend = <<>> /\ mu.writer # <<"run", r>>)
    /\ \A r \in RunIds : \A k \in DOMAIN runs[r].pend :
          /\ runs[r].pend[k][1] \in WrittenFields
          /\ runs[r].pend[k][1] = "IsRunning" => (runs[r].pend[k][2] = FALSE /\ runs[r].ret = "done")
    /\ \A r \in ActiveRuns :
          /\ r = accepted
          /\ status.Owner = runs[r].owner /\ status.Repo = runs[r].repo
          /\ ~status.IsRunning => (runs[r].pc = "write" /\ runs[r].ret = "done")
    /\ status.IsRunning =>
          /\ Cardinality(ActiveRuns) + Cardinality(Spawning) = 1
          /\ \A h \in Spawning : status.Owner = hs[h].owner /\ status.Repo = hs[h].repo
          /\ \A r \in ActiveRuns :
                (mu.writer = <<>> /\ status.Message[1] = "Processing ") =>
                    /\ status.Message[4] = runs[r].processed
                    /\ status.Message[5] <= runs[r].skipped
                    /\ \E j \in 0..runs[r].i :
                          /\ j + 2 <= Len(runs[r].releases)
                          /\ status.Message[2] = runs[r].releases[j + 2].TagName
                          /\ status.Message[3] = runs[r].releases[j + 1].TagName

\* C30: a run's last status write is the one that clears running
\* (setIndexError or finishIndexing); a goroutine that has returned writes
\* nothing, and no write of a run changes owner or repo. Every change of the
\* status is made either by the request that is being accepted or, the
\* status saying running when its writer took the lock, by the one goroutine
\* that has not returned, which holds the lock; so while the status says
\* running, its owner and repo are those of the run in flight and its
\* progress and message were written for that run.
OnlyActiveRunWrites ==
    /\ []RunInFlight
    /\ [][status' # status =>
            \/ \E h \in HandlerIds :
                  /\ hs[h].pc = "locked" /\ hs'[h].pc = "spawn" /\ ~status.IsRunning
                  /\ status'.Owner = hs[h].owner /\ status'.Repo = hs[h].repo
            \/ \E r \in RunIds :
                  /\ ActiveRuns = {r} /\ r = accepted
                  /\ runs[r].pc = "write" /\ mu.writer = <<"run", r>>
                  /\ status'.Owner = status.Owner /\ status'.Repo = status.Repo
                  /\ status.Owner = runs[r].owner /\ status.Repo = runs[r].repo
                  /\ status'.IsRunning => status.IsRunning]_vars

\* C30 witness: the second run, of the other repository, is writing the
\* progress of a pair after the first run ended with its summary.
OnlyActiveWitness ==
    /\ Len(runs) = 2 /\ runs[1].pc = "done" /\ runs[1].err = <<>>
    /\ runs[2].owner # runs[1].owner
    /\ runs[2].pc = "write" /\ runs[2].ret = "fetchCommits" /\ runs[2].pend = <<>>
    /\ status.IsRunning /\ status.Owner = runs[2].owner
    /\ status.Message[1] = "Processing "


\* The run records of both variants that have ended, and whether the
\* listing of a record failed.
EndedRecords == {x \in {runs[r] : r \in RunIds} \cup {cli} : x.pc \in {"done", "exited"}}
ListingFailed(x) == x.err # <<>> /\ x.err[1] \in {"err", "failed to fetch releases: "}

\* The events of a record for pair i.
PairEvents(x, i, ev) == {k \in DOMAIN x.trace : x.trace[k].i = i /\ x.trace[k].ev = ev}

\* What runIndexingAsync does with the remote responses and store outcomes
\* it meets, as a relation between the outcomes a record saw and what it
\* did. A failed listing ends the run with nothing done. Otherwise every
\* listed release is saved, whether or not a save fails; every pair is
\* probed, in order; a pair the store reports cached is skipped; for any
\* other pair compare is called unless a commit pointer is missing, each
\* commit of a successful compare is saved, the diff is fetched, and each
\* file change of a successful diff is saved; processed and skipped count
\* the probes of their kind.
AsAsyncEngine(x) ==
    IF ListingFailed(x)
    THEN x.saved = 0 /\ x.trace = <<>> /\ x.processed = 0 /\ x.skipped = 0
    ELSE
    /\ x.saved = Len(x.releases)
    /\ \A i \in 0..(PairCount(x) - 1) :
          LET missing == x.releases[i + 2].CommitSHA = <<>> \/ x.releases[i + 1].CommitSHA = <<>>
              probes == PairEvents(x, i, "probe")
              compares == PairEvents(x, i, "compare")
              diffs == PairEvents(x, i, "diff")
              cached == \E k \in probes : x.trace[k].ok
              compared == \E k \in compares : x.trace[k].ok
              diffed == \E k \in diffs : x.trace[k].ok
          IN /\ Cardinality(probes) = 1
             /\ Cardinality(compares) = (IF cached \/ missing THEN 0 ELSE 1)
             /\ Cardinality(PairEvents(x, i, "saveCommit")) = (IF compared THEN remote.commits ELSE 0)
             /\ Cardinality(diffs) = (IF compared THEN 1 ELSE 0)
             /\ Cardinality(PairEvents(x, i, "saveFile")) = (IF diffed THEN remote.files ELSE 0)
    /\ \A k, m \in DOMAIN x.trace : k < m => x.trace[k].i <= x.trace[m].i
    /\ x.skipped = Cardinality({k \in DOMAIN x.trace : x.trace[k].ev = "probe" /\ x.trace[k].ok})
    /\ x.processed = Cardinality({k \in DOMAIN x.trace : x.trace[k].ev = "probe" /\ ~x.trace[k].ok})

\* C31 (as claimed): the two variants are equivalent as indexing engines.
\* Given the remote responses and the store outcomes a run met, failures
\* included, a run of either variant that has ended made the calls, the
\* saves and the counts that runIndexingAsync makes of them; and when a run
\* of each variant has ended on the same repository, both listings having
\* succeeded, the two listed the same releases and tried to save as many.
VariantsEquivalent ==
    /\ \A x \in EndedRecords : AsAsyncEngine(x)
    /\ \A r \in RunIds :
          ( /\ runs[r].pc = "done" /\ cli.pc = "exited"
            /\ ~ListingFailed(runs[r]) /\ ~ListingFailed(cli) )
          => (cli.releases = runs[r].releases /\ cli.saved = runs[r].saved)


\* The pairs run records have probed, as (from tag, to tag), and the runs
\* that stored a file-change row under a pair.
ProbedKeys == UNION {{<<Trace(r)[k].from, Trace(r)[k].to>> : k \in Probes(r)} : r \in RunIds}
WritersOf(from, to) == {r \in RunIds : WroteRows(r, from, to)}

\* A probe of run r failed on a pair that had file-change rows: the store
\* held rows of the pair (an earlier run or this run had stored one) and
\* the run was told the pair was not cached.
ProbeFailedOnCached(r) ==
    \E k \in Probes(r) :
        /\ ~Trace(r)[k].ok
        /\ \/ \E q \in RunIds : q < r /\ WroteRows(q, Trace(r)[k].from, Trace(r)[k].to)
           \/ \E m \in DOMAIN Trace(r) :
                 /\ m < k /\ Trace(r)[m].ev = "saveFile" /\ Trace(r)[m].ok
                 /\ Trace(r)[m].from = Trace(r)[k].from /\ Trace(r)[m].to = Trace(r)[k].to

\* No two file-change rows of the store agree on owner, repo, from_release,
\* to_release and filename.
NoTwoRowsAlike(d) ==
    \A n, m \in DOMAIN d.file_changes :
        ( /\ d.file_changes[n].owner = d.file_changes[m].owner
          /\ d.file_changes[n].repo = d.file_changes[m].repo
          /\ d.file_changes[n].from_release = d.file_changes[m].from_release
          /\ d.file_changes[n].to_release = d.file_changes[m].to_release
          /\ d.file_changes[n].filename = d.file_changes[m].filename ) => n = m

\* C32: over the runs of one repository, which the single-flight start keeps
\* from overlapping, and as long as no cache probe has failed on a pair that
\* had rows: the file-change rows of a pair are written by one run at most,
\* every row of the store was written by a run for its pair, and the store
\* holds no two rows with the same owner, repo, from_release, to_release and
\* filename (the remote of the model reports a filename once in a diff).
NoDuplicateFileChanges ==
    (\A r \in RunIds : ~ProbeFailedOnCached(r))
    => /\ \A key \in ProbedKeys : Cardinality(WritersOf(key[1], key[2])) <= 1
       /\ \A n \in DOMAIN db.file_changes :
             WritersOf(db.file_changes[n].from_release, db.file_changes[n].to_release) # {}
       /\ NoTwoRowsAlike(db)

\* C32 witness: a first run stored the file changes of a pair and ended; a
\* second run of the same repository came to the pair, was told it was
\* cached and ended, no probe having failed; the rows are those of the
\* first run.
NoDuplicateWitness ==
    \E r1, r2 \in RunIds : \E k \in Probes(r2) :
        /\ r1 < r2 /\ runs[r1].pc = "done" /\ runs[r2].pc = "done"
        /\ runs[r1].owner = runs[r2].owner /\ runs[r1].repo = runs[r2].repo
        /\ Trace(r2)[k].ok
        /\ WroteRows(r1, Trace(r2)[k].from, Trace(r2)[k].to)
        /\ ~WroteRows(r2, Trace(r2)[k].from, Trace(r2)[k].to)
        /\ FileRows(db, runs[r1].owner, runs[r1].repo, Trace(r2)[k].from, Trace(r2)[k].to) # {}
        /\ \A r \in RunIds : ~ProbeFailedOnCached(r)

=============================================================================
